---- MODULE Spec2Model ----
(***************************************************************************)
(* Credential and token lifecycle of the three demo services jwt_auth,     *)
(* session_auth and oauth_auth.  One behaviour is one run of one service   *)
(* (each is its own process with its own database); `service' says which.  *)
(* Time is counted in ticks of 1/TicksPerSecond s, so that the difference  *)
(* between Python's utcnow() (sub-second), SQLite's datetime('now') (whole *)
(* seconds) and a JWT's integer exp claim (whole seconds) is visible.      *)
(***************************************************************************)
EXTENDS Integers, Sequences, FiniteSets, TLC

VARIABLES
    service,         \* which of the three applications is running
    storage,         \* session_auth: SESSION_STORAGE_TYPE
    now,             \* the wall clock, in ticks
    users,           \* table users (jwt_auth, session_auth)
    userSeq,         \* sqlite_sequence of users (AUTOINCREMENT)
    refresh_tokens,  \* table refresh_tokens (jwt_auth)
    tokenSeq,        \* sqlite_sequence of refresh_tokens (AUTOINCREMENT)
    rnd,             \* number of random secrets drawn (token_urlsafe, uuid4)
    issued,          \* access tokens handed out so far, with how and when
    sessions,        \* the session store (session_auth)
    oauth_users,     \* table users of oauth_auth
    oauthSeq,        \* its sqlite_sequence
    req,             \* the last request served
    resp,            \* the response to it
    dbcalls,         \* the storage statements the last request executed
    thr,             \* concurrent requests: each thread's position and locals
    dbLock,          \* concurrent requests: the thread holding the write lock
    backends         \* one session store of each type, given the same calls

config == <<service, storage, backends>>
accounts == <<users, userSeq>>
vault == <<refresh_tokens, tokenSeq>>
oauth == <<oauth_users, oauthSeq>>
conc == <<thr, dbLock>>
last == <<req, resp, dbcalls>>

vars == <<config, now, accounts, vault, rnd, issued, sessions, oauth, last,
          conc>>

-----------------------------------------------------------------------------
(* Bounds of the model *)

TicksPerSecond == 2
MaxStart == 1
MaxRefresh == 2
MaxAccess == 2
MaxSessions == 2

(* Configuration of the program *)

ACCESS_TOKEN_EXPIRE_MINUTES == 30
REFRESH_TOKEN_EXPIRE_DAYS == 7
SESSION_EXPIRE_HOURS == 24
OAUTH_TOKEN_EXPIRE_HOURS == 24
MinPasswordLength == 6
SECRET_KEY == "your-secret-key-change-in-production"

(* Inputs *)

Emails == {"a@x.com", "b@x.com"}
Passwords == {"secr5", "secret"}
LoginPasswords == Passwords \cup {"Secret"}
Salts == {"salt1"}
None == <<>>
Some(x) == <<x>>
NoSub == 0
NoType == "(missing)"

-----------------------------------------------------------------------------
(* Time *)

timedelta_seconds(s) == s * TicksPerSecond
timedelta_minutes(m) == timedelta_seconds(60 * m)
timedelta_hours(h) == timedelta_minutes(60 * h)
timedelta_days(d) == timedelta_hours(24 * d)

AccessTtl == timedelta_minutes(ACCESS_TOKEN_EXPIRE_MINUTES)
RefreshTtl == timedelta_days(REFRESH_TOKEN_EXPIRE_DAYS)
SessionTtl == timedelta_hours(SESSION_EXPIRE_HOURS)
OauthTtl == timedelta_hours(OAUTH_TOKEN_EXPIRE_HOURS)

\* An expires_delta a caller of create_access_token may pass: nothing, zero,
\* one and a half seconds, or a negative duration.
Deltas == {None, Some(0), Some(TicksPerSecond + 1), Some(0 - 1)}

\* datetime('now') and CURRENT_TIMESTAMP: the clock cut to whole seconds.
\* The text 'YYYY-MM-DD HH:MM:SS' compares with a stored
\* 'YYYY-MM-DD HH:MM:SS.ffffff' as the instants do, a longer text with the
\* same prefix being the greater one.
SqlNow(t) == (t \div TicksPerSecond) * TicksPerSecond

\* timegm(dt.utctimetuple()): a datetime as integer seconds since the epoch.
EpochSeconds(t) == t \div TicksPerSecond

\* The instants the clock visits: the first ones, at which users register
\* and log in, and those around the end of a lifetime counted from them.
\* A stored expires_at keeps its fraction of a second; a JWT's exp does not.
StartInstants == 0 .. MaxStart
Around(ttl) == (ttl - 1) .. (ttl + MaxStart + 1)
AroundExp(ttl) == (ttl - 1) .. (ttl + SqlNow(MaxStart))
JwtInstants ==
    StartInstants \cup AroundExp(AccessTtl) \cup Around(RefreshTtl)
SessionInstants == StartInstants \cup Around(SessionTtl)
OauthInstants == StartInstants \cup AroundExp(OauthTtl)
Instants == IF service = "jwt_auth" THEN JwtInstants
            ELSE IF service = "session_auth" THEN SessionInstants
            ELSE OauthInstants

-----------------------------------------------------------------------------
(* Passwords and hashes *)

\* bcrypt.hashpw(password, salt): the encoded hash carries the salt and the
\* digest of (salt, password); distinct inputs give distinct digests.
bcrypt_hashpw(password, salt) == <<"$2b$", salt, <<salt, password>>>>

hash_password(password, salt) == bcrypt_hashpw(password, salt)

\* A check that hashes the password with a salt of its own instead of the
\* salt kept in the stored hash.
verify_password_resalted(password, password_hash) ==
    bcrypt_hashpw(password, "salt0") = password_hash

verify_password(password, password_hash) ==
    bcrypt_hashpw(password, password_hash[2]) = password_hash

-----------------------------------------------------------------------------
(* Users *)

get_user_by_email(tbl, email) ==
    IF \E u \in tbl : u.email = email
    THEN Some(CHOOSE u \in tbl : u.email = email)
    ELSE None

\* The UNIQUE constraint on users.email, checked by the INSERT itself.
\* A users table without the UNIQUE constraint on email.
UniqueViolation_none(tbl, email) == FALSE

UniqueViolation(tbl, email) == \E u \in tbl : u.email = email

\* create_user: [id, users', userSeq'], id = None on IntegrityError.
create_user(tbl, seq, email, password, salt, t) ==
    IF UniqueViolation(tbl, email)
    THEN [id |-> None, users |-> tbl, seq |-> seq]
    ELSE [id |-> Some(seq + 1),
          users |-> tbl \cup {[id |-> seq + 1, email |-> email,
                               password_hash |-> hash_password(password, salt),
                               created_at |-> SqlNow(t)]},
          seq |-> seq + 1]

-----------------------------------------------------------------------------
(* Tokens *)

NoToken == [kind |-> "none"]
Garbage == [kind |-> "garbage"]
Opaque(n) == [kind |-> "opaque", n |-> n]

\* jwt.encode(payload, key): exp is serialised as integer seconds.
jwt_encode(sub, expire, type, key) ==
    [kind |-> "jwt", sub |-> sub, exp |-> EpochSeconds(expire),
     type |-> type, key |-> key]

\* A decode that looks at exp before it checks the signature.
jwt_decode_expiry_first(token, t) ==
    IF token.kind # "jwt" THEN [ok |-> FALSE, err |-> "DecodeError"]
    ELSE IF timedelta_seconds(token.exp) <= t
         THEN [ok |-> FALSE, err |-> "ExpiredSignatureError"]
    ELSE IF token.key # SECRET_KEY
         THEN [ok |-> FALSE, err |-> "InvalidSignatureError"]
    ELSE [ok |-> TRUE, err |-> "", sub |-> token.sub, type |-> token.type]

\* jwt.decode(token, SECRET_KEY, algorithms): structure, then signature,
\* then exp against the current time.
jwt_decode(token, t) ==
    IF token.kind # "jwt" THEN [ok |-> FALSE, err |-> "DecodeError"]
    ELSE IF token.key # SECRET_KEY
         THEN [ok |-> FALSE, err |-> "InvalidSignatureError"]
    ELSE IF timedelta_seconds(token.exp) <= t
         THEN [ok |-> FALSE, err |-> "ExpiredSignatureError"]
    ELSE [ok |-> TRUE, err |-> "", sub |-> token.sub, type |-> token.type]

\* `if expires_delta:' -- None and timedelta(0) are both falsy.
Truthy(expires_delta) == expires_delta # None /\ expires_delta[1] # 0

create_access_token(sub, expires_delta, t) ==
    LET expire == IF Truthy(expires_delta)
                  THEN t + expires_delta[1]
                  ELSE t + AccessTtl
    IN  jwt_encode(sub, expire, "access", SECRET_KEY)

\* The rows a scan of refresh_tokens sees: expires_at > datetime('now').
ActiveTokens(tbl, t) == {r \in tbl : r.expires_at > SqlNow(t)}

\* A table whose id is a plain INTEGER PRIMARY KEY, without AUTOINCREMENT:
\* the new row gets the largest id of the table plus one, so the id of a
\* deleted last row is given out again.
create_refresh_token_rowid(tbl, seq, user_id, token, salt, t) ==
    tbl \cup {[id |-> IF tbl = {} THEN 1
                      ELSE 1 + (CHOOSE n \in {r.id : r \in tbl} :
                                    \A r \in tbl : r.id <= n),
               user_id |-> user_id,
               token_hash |-> hash_password(token, salt),
               expires_at |-> t + RefreshTtl,
               created_at |-> SqlNow(t)]}

\* A create_refresh_token that stores the row id in the user_id column.
create_refresh_token_row_owner(tbl, seq, user_id, token, salt, t) ==
    tbl \cup {[id |-> seq + 1, user_id |-> seq + 2,
               token_hash |-> hash_password(token, salt),
               expires_at |-> t + RefreshTtl,
               created_at |-> SqlNow(t)]}

\* create_refresh_token: the new token is Opaque(rnd + 1).
create_refresh_token(tbl, seq, user_id, token, salt, t) ==
    tbl \cup {[id |-> seq + 1, user_id |-> user_id,
               token_hash |-> hash_password(token, salt),
               expires_at |-> t + RefreshTtl,
               created_at |-> SqlNow(t)]}

Matching(tbl, token, t) ==
    {r \in ActiveTokens(tbl, t) : verify_password(token, r.token_hash)}

First(rows) == CHOOSE r \in rows : \A q \in rows : r.id <= q.id

\* A verify that returns the id of the matching row, not its user_id.
verify_refresh_token_row_id(tbl, token, t) ==
    IF Matching(tbl, token, t) = {} THEN None
    ELSE Some(First(Matching(tbl, token, t)).id)

verify_refresh_token(tbl, token, t) ==
    IF Matching(tbl, token, t) = {} THEN None
    ELSE Some(First(Matching(tbl, token, t)).user_id)

\* A revoke that deletes every token of the owner of the matching row.
revoke_refresh_token_of_user(tbl, token, t) ==
    IF Matching(tbl, token, t) = {} THEN tbl
    ELSE {r \in tbl : r.user_id # First(Matching(tbl, token, t)).user_id}

\* A revoke that finds the row and does not delete it.
revoke_refresh_token_keeps(tbl, token, t) == tbl

revoke_refresh_token(tbl, token, t) ==
    IF Matching(tbl, token, t) = {} THEN tbl
    ELSE tbl \ {First(Matching(tbl, token, t))}

-----------------------------------------------------------------------------
(* Responses.  `detail' is the detail of the HTTPException or the message  *)
(* of the body; the Russian texts of the source are given in English, one  *)
(* English text per distinct source text.                                  *)

Response(status, detail) ==
    [status |-> status, detail |-> detail, user |-> NoSub,
     access_token |-> NoToken, refresh_token |-> NoToken, cookie |-> None,
     count |-> 0]

\* A get_current_user that does not look at the type claim.
jwt_get_current_user_any_type(token, t) ==
    LET payload == jwt_decode(token, t)
    IN  IF ~payload.ok THEN Response(401, "Invalid token")
        ELSE IF payload.sub = NoSub THEN Response(401, "Invalid token")
        ELSE [Response(200, "") EXCEPT !.user = payload.sub]

\* A get_current_user that accepts an access token only while its subject
\* still has a refresh token stored, so that a logout ends it.
jwt_get_current_user_revocable(token, t) ==
    LET payload == jwt_decode(token, t)
    IN  IF ~payload.ok THEN Response(401, "Invalid token")
        ELSE IF payload.type # "access"
             THEN Response(401, "Invalid token type")
        ELSE IF payload.sub = NoSub THEN Response(401, "Invalid token")
        ELSE IF ~\E r \in refresh_tokens : r.user_id = payload.sub
             THEN Response(401, "Invalid token")
        ELSE [Response(200, "") EXCEPT !.user = payload.sub]

\* jwt_auth get_current_user, as the response it leads to.
jwt_get_current_user(token, t) ==
    LET payload == jwt_decode(token, t)
    IN  IF ~payload.ok THEN Response(401, "Invalid token")
        ELSE IF payload.type # "access"
             THEN Response(401, "Invalid token type")
        ELSE IF payload.sub = NoSub THEN Response(401, "Invalid token")
        ELSE [Response(200, "") EXCEPT !.user = payload.sub]

-----------------------------------------------------------------------------
(* Request handling shared by jwt_auth and session_auth *)

\* A length check that also turns away a password of exactly six characters.
TooShort_off_by_one(password) == Len(password) <= MinPasswordLength

\* `if len(user.password) < 6'
TooShort(password) == Len(password) < MinPasswordLength

\* register: the length check, then create_user.
register(tbl, seq, email, password, salt, t) ==
    IF TooShort(password)
    THEN [resp |-> Response(400, "password must be at least 6 characters"),
          users |-> tbl, seq |-> seq, db |-> <<>>]
    ELSE LET made == create_user(tbl, seq, email, password, salt, t)
         IN  IF made.id = None
             THEN [resp |-> Response(400, "email already registered"),
                   users |-> made.users, seq |-> made.seq,
                   db |-> <<"INSERT users">>]
             ELSE [resp |-> Response(200, "registered"),
                   users |-> made.users, seq |-> made.seq,
                   db |-> <<"INSERT users">>]

\* A login that tells an unknown email from a wrong password.
authenticate_telling(tbl, email, password) ==
    LET user_data == get_user_by_email(tbl, email)
    IN  IF user_data = None
        THEN Response(401, "unknown email")
        ELSE IF ~verify_password(password, user_data[1].password_hash)
             THEN Response(401, "invalid email or password")
        ELSE [Response(200, "") EXCEPT !.user = user_data[1].id]

\* login, up to the point where the credentials are accepted: the 401 of
\* either failing branch, or 200 with the user's id.
authenticate(tbl, email, password) ==
    LET user_data == get_user_by_email(tbl, email)
    IN  IF user_data = None
        THEN Response(401, "invalid email or password")
        ELSE IF ~verify_password(password, user_data[1].password_hash)
             THEN Response(401, "invalid email or password")
        ELSE [Response(200, "") EXCEPT !.user = user_data[1].id]

-----------------------------------------------------------------------------
(* jwt_auth: the requests *)

Variants(tok) ==
    {tok, [tok EXCEPT !.type = "refresh"], [tok EXCEPT !.type = NoType],
     [tok EXCEPT !.sub = NoSub], [tok EXCEPT !.key = "attacker-key"]}
Known == {e.tok : e \in issued}
             \cup (IF resp.access_token = NoToken THEN {}
                   ELSE {resp.access_token})

\* What a client can present as a refresh token: a token it was given, one
\* nobody was given, an access token, or noise.
RefreshInputs ==
    {Opaque(n) : n \in 0 .. rnd} \cup Known \cup {Garbage}

\* What a client can present as a bearer token: an access token it was
\* given, the same with another type claim, without subject or signed with
\* another key, an opaque refresh token, or noise.
BearerInputs ==
    UNION {Variants(tok) : tok \in Known}
        \cup {Opaque(n) : n \in 1 .. rnd} \cup {Garbage}

\* A token handed out by a request, and one made by a direct call of
\* create_access_token, with the instant and the expires_delta of the call.
Handed(tok, via) == [tok |-> tok, via |-> via]
Made(tok, t, delta) == [tok |-> tok, via |-> "call", at |-> t, delta |-> delta]

JwtRegister(email, password, salt) ==
    /\ service = "jwt_auth"
    /\ now \in StartInstants
    /\ LET r == register(users, userSeq, email, password, salt, now)
       IN  /\ users' = r.users
           /\ userSeq' = r.seq
           /\ resp' = r.resp
           /\ dbcalls' = r.db
    /\ req' = [op |-> "register", email |-> email, password |-> password]
    /\ UNCHANGED <<config, now, vault, rnd, issued, sessions, oauth, conc>>

JwtLogin(email, password, salt) ==
    /\ service = "jwt_auth"
    /\ LET a == authenticate(users, email, password)
       IN  IF a.status # 200
           THEN /\ resp' = a
                /\ dbcalls' = <<"SELECT users">>
                /\ UNCHANGED <<refresh_tokens, tokenSeq, rnd, issued>>
           ELSE /\ now \in StartInstants
                /\ tokenSeq < MaxRefresh
                /\ LET access == create_access_token(a.user, None, now)
                       token == Opaque(rnd + 1)
                   IN  /\ refresh_tokens' =
                              create_refresh_token(refresh_tokens, tokenSeq,
                                                   a.user, token, salt, now)
                       /\ tokenSeq' = tokenSeq + 1
                       /\ rnd' = rnd + 1
                       /\ issued' = issued \cup {Handed(access, "login")}
                       /\ resp' = [Response(200, "") EXCEPT
                                       !.user = a.user,
                                       !.access_token = access,
                                       !.refresh_token = token]
                       /\ dbcalls' = <<"SELECT users", "INSERT refresh_tokens">>
    /\ req' = [op |-> "login", email |-> email, password |-> password]
    /\ UNCHANGED <<config, now, accounts, sessions, oauth, conc>>

JwtRefresh(token) ==
    /\ service = "jwt_auth"
    /\ token \in RefreshInputs
    /\ LET user_id == verify_refresh_token(refresh_tokens, token, now)
       IN  IF user_id = None
           THEN resp' = Response(401, "invalid refresh token")
           ELSE resp' = [Response(200, "") EXCEPT
                             !.user = user_id[1],
                             !.access_token =
                                 create_access_token(user_id[1], None, now),
                             !.refresh_token = token]
    /\ dbcalls' = <<"SELECT refresh_tokens">>
    /\ req' = [op |-> "refresh", token |-> token]
    /\ UNCHANGED <<config, now, accounts, vault, rnd, issued, sessions, oauth,
                   conc>>

\* GET /profile: get_current_user, then the user's row.
get_profile(tbl, token, t) ==
    LET who == jwt_get_current_user(token, t)
    IN  IF who.status # 200 THEN who
        ELSE IF ~\E u \in tbl : u.id = who.user
             THEN Response(404, "user not found")
        ELSE who

JwtProfile(token) ==
    /\ service = "jwt_auth"
    /\ token \in BearerInputs
    /\ resp' = get_profile(users, token, now)
    /\ dbcalls' = IF jwt_get_current_user(token, now).status = 200
                  THEN <<"SELECT users">> ELSE <<>>
    /\ req' = [op |-> "profile", token |-> token]
    /\ UNCHANGED <<config, now, accounts, vault, rnd, issued, sessions, oauth,
                   conc>>

JwtLogout(token) ==
    /\ service = "jwt_auth"
    /\ token \in RefreshInputs
    /\ refresh_tokens' = revoke_refresh_token(refresh_tokens, token, now)
    /\ resp' = Response(200, "logged out")
    /\ dbcalls' = IF refresh_tokens' = refresh_tokens
                  THEN <<"SELECT refresh_tokens">>
                  ELSE <<"SELECT refresh_tokens", "DELETE refresh_tokens">>
    /\ req' = [op |-> "logout", token |-> token]
    /\ UNCHANGED <<config, now, accounts, tokenSeq, rnd, issued, sessions,
                   oauth, conc>>

\* Time passes.
Tick(grid) ==
    /\ \E t \in grid : t > now /\ now' = t
    /\ UNCHANGED <<config, accounts, vault, rnd, issued, sessions, oauth, last,
                   conc>>

-----------------------------------------------------------------------------
(* session_auth: the three session stores.  A store is a set of entries    *)
(* [id, body]: a row of table sessions, a JSON file named after the id, or *)
(* an entry of the dictionary.  Each operation gives the store afterwards  *)
(* and its result.                                                         *)

EmptyData == "{}"
\* The data a caller stores with a session: JSON objects, as their text.
SessionData == {EmptyData, "{\"theme\": \"dark\"}"}
json_dumps(x) == <<"json", x>>
json_loads(text) == text[2]
isoformat(t) == <<"iso", t>>
fromisoformat(text) == text[2]

Has(store, id) == \E e \in store : e.id = id
Entry(store, id) == CHOOSE e \in store : e.id = id
Put(store, id, body) ==
    {e \in store : e.id # id} \cup {[id |-> id, body |-> body]}
Drop(store, id) == {e \in store : e.id # id}

sqlite_create_session(store, session_id, user_id, t) ==
    [store |-> Put(store, session_id,
                   [user_id |-> user_id, created_at |-> SqlNow(t),
                    expires_at |-> t + SessionTtl,
                    last_activity |-> SqlNow(t),
                    data |-> json_dumps(EmptyData)]),
     result |-> session_id]

sqlite_live(store, session_id, t) ==
    /\ Has(store, session_id)
    /\ Entry(store, session_id).body.expires_at > SqlNow(t)

sqlite_get_session(store, session_id, t) ==
    IF ~sqlite_live(store, session_id, t)
    THEN [store |-> store, result |-> None]
    ELSE LET row == Entry(store, session_id).body
         IN  [store |-> store,
              result |-> Some([session_id |-> session_id,
                               user_id |-> row.user_id,
                               created_at |-> row.created_at,
                               expires_at |-> row.expires_at,
                               last_activity |-> row.last_activity,
                               data |-> json_loads(row.data)])]

\* A variant that also moves the expiry forward (sliding expiry).
sqlite_update_session_sliding(store, session_id, data, t) ==
    IF ~sqlite_live(store, session_id, t)
    THEN [store |-> store, result |-> FALSE]
    ELSE [store |-> Put(store, session_id,
                        [Entry(store, session_id).body EXCEPT
                             !.expires_at = t + SessionTtl,
                             !.last_activity = SqlNow(t),
                             !.data = json_dumps(data)]),
          result |-> TRUE]

sqlite_update_session(store, session_id, data, t) ==
    IF ~sqlite_live(store, session_id, t)
    THEN [store |-> store, result |-> FALSE]
    ELSE [store |-> Put(store, session_id,
                        [Entry(store, session_id).body EXCEPT
                             !.last_activity = SqlNow(t),
                             !.data = json_dumps(data)]),
          result |-> TRUE]

sqlite_delete_session(store, session_id) ==
    [store |-> Drop(store, session_id), result |-> Has(store, session_id)]

sqlite_cleanup_expired(store, t) ==
    LET gone == {e \in store : e.body.expires_at <= SqlNow(t)}
    IN  [store |-> store \ gone, result |-> Cardinality(gone)]

\* The dictionary a file or memory session holds.
session_dict(session_id, user_id, t) ==
    [session_id |-> session_id, user_id |-> user_id,
     created_at |-> isoformat(t),
     expires_at |-> isoformat(t + SessionTtl),
     last_activity |-> isoformat(t),
     data |-> EmptyData]

\* `datetime.utcnow() > expires_at' of the file and memory stores.
Expired(session_data, t) == t > fromisoformat(session_data.expires_at)

file_create_session(store, session_id, user_id, t) ==
    [store |-> Put(store, session_id,
                   json_dumps(session_dict(session_id, user_id, t))),
     result |-> session_id, error |-> ""]

\* What reading a session file raises, "" if nothing: json.load on a text
\* that is not JSON, session_data['expires_at'] on a JSON value that is not
\* an object or on an object without the key, and fromisoformat on a text
\* that is not a date.
file_error(body) ==
    IF body[1] \notin {"json", "json-array"} THEN "JSONDecodeError"
    ELSE IF body[1] = "json-array" THEN "TypeError"
    ELSE IF "expires_at" \notin DOMAIN json_loads(body) THEN "KeyError"
    ELSE IF json_loads(body).expires_at[1] # "iso" THEN "ValueError"
    ELSE ""

\* `except (json.JSONDecodeError, KeyError, ValueError)'
Caught == {"JSONDecodeError", "KeyError", "ValueError"}

\* The operations of the file store give, besides the store and the result,
\* the exception that leaves them ("" if none; the result is then not
\* returned).
file_get_session(store, session_id, t) ==
    IF ~Has(store, session_id)
    THEN [store |-> store, result |-> None, error |-> ""]
    ELSE LET body == Entry(store, session_id).body
         IN  IF file_error(body) \in Caught
             THEN [store |-> Drop(store, session_id), result |-> None,
                   error |-> ""]
             ELSE IF file_error(body) # ""
             THEN [store |-> store, result |-> None,
                   error |-> file_error(body)]
             ELSE IF Expired(json_loads(body), t)
             THEN [store |-> Drop(store, session_id), result |-> None,
                   error |-> ""]
             ELSE [store |-> store, result |-> Some(json_loads(body)),
                   error |-> ""]

file_update_session(store, session_id, data, t) ==
    IF ~Has(store, session_id)
    THEN [store |-> store, result |-> FALSE, error |-> ""]
    ELSE LET body == Entry(store, session_id).body
         IN  IF file_error(body) \in Caught
             THEN [store |-> store, result |-> FALSE, error |-> ""]
             ELSE IF file_error(body) # ""
             THEN [store |-> store, result |-> FALSE,
                   error |-> file_error(body)]
             ELSE IF Expired(json_loads(body), t)
             THEN [store |-> Drop(store, session_id), result |-> FALSE,
                   error |-> ""]
             ELSE [store |-> Put(store, session_id,
                                 json_dumps([json_loads(body) EXCEPT
                                     !.last_activity = isoformat(t),
                                     !.data = data])),
                   result |-> TRUE, error |-> ""]

file_delete_session(store, session_id) ==
    [store |-> Drop(store, session_id), result |-> Has(store, session_id),
     error |-> ""]

\* The files a pass of cleanup_expired removes: the damaged ones it can
\* tell and the expired ones.
file_removable(store, t) ==
    {e \in store : \/ file_error(e.body) \in Caught
                   \/ /\ file_error(e.body) = ""
                      /\ Expired(json_loads(e.body), t)}

\* The files at which a pass of cleanup_expired raises.
file_unreadable(store) ==
    {e \in store : file_error(e.body) \notin Caught \cup {""}}

\* cleanup_expired over the files `listed' before the pass ends: all of them
\* when no file makes it raise, else the ones os.listdir gave before the
\* first such file.
file_cleanup_pass(store, listed, t) ==
    LET gone == file_removable(store, t) \cap listed
    IN  [store |-> store \ gone, result |-> Cardinality(gone),
         error |-> IF file_unreadable(store) = {} THEN "" ELSE "TypeError"]

\* The files os.listdir can give before the first one that raises.
Listings(store) ==
    IF file_unreadable(store) = {} THEN {store}
    ELSE SUBSET (store \ file_unreadable(store))

file_cleanup_expired(store, t) ==
    file_cleanup_pass(store, CHOOSE l \in Listings(store) : TRUE, t)

memory_create_session(store, session_id, user_id, t) ==
    [store |-> Put(store, session_id, session_dict(session_id, user_id, t)),
     result |-> session_id]

memory_get_session(store, session_id, t) ==
    IF ~Has(store, session_id) THEN [store |-> store, result |-> None]
    ELSE LET session_data == Entry(store, session_id).body
         IN  IF Expired(session_data, t)
             THEN [store |-> Drop(store, session_id), result |-> None]
             ELSE [store |-> store, result |-> Some(session_data)]

memory_update_session(store, session_id, data, t) ==
    IF ~Has(store, session_id) THEN [store |-> store, result |-> FALSE]
    ELSE LET session_data == Entry(store, session_id).body
         IN  IF Expired(session_data, t)
             THEN [store |-> Drop(store, session_id), result |-> FALSE]
             ELSE [store |-> Put(store, session_id,
                                 [session_data EXCEPT
                                      !.last_activity = isoformat(t),
                                      !.data = data]),
                   result |-> TRUE]

\* A variant that reports success whether or not the id was stored.
memory_delete_session_always(store, session_id) ==
    [store |-> Drop(store, session_id), result |-> TRUE]

memory_delete_session(store, session_id) ==
    [store |-> Drop(store, session_id), result |-> Has(store, session_id)]

memory_cleanup_expired(store, t) ==
    LET gone == {e \in store : Expired(e.body, t)}
    IN  [store |-> store \ gone, result |-> Cardinality(gone)]

\* session_storage: the store chosen by SESSION_STORAGE_TYPE.
create_session(kind, store, session_id, user_id, t) ==
    IF kind = "sqlite" THEN sqlite_create_session(store, session_id, user_id, t)
    ELSE IF kind = "file"
         THEN file_create_session(store, session_id, user_id, t)
    ELSE memory_create_session(store, session_id, user_id, t)

get_session(kind, store, session_id, t) ==
    IF kind = "sqlite" THEN sqlite_get_session(store, session_id, t)
    ELSE IF kind = "file" THEN file_get_session(store, session_id, t)
    ELSE memory_get_session(store, session_id, t)

update_session(kind, store, session_id, data, t) ==
    IF kind = "sqlite" THEN sqlite_update_session(store, session_id, data, t)
    ELSE IF kind = "file"
         THEN file_update_session(store, session_id, data, t)
    ELSE memory_update_session(store, session_id, data, t)

delete_session(kind, store, session_id) ==
    IF kind = "sqlite" THEN sqlite_delete_session(store, session_id)
    ELSE IF kind = "file" THEN file_delete_session(store, session_id)
    ELSE memory_delete_session(store, session_id)

cleanup_expired(kind, store, t) ==
    IF kind = "sqlite" THEN sqlite_cleanup_expired(store, t)
    ELSE IF kind = "file" THEN file_cleanup_expired(store, t)
    ELSE memory_cleanup_expired(store, t)

-----------------------------------------------------------------------------
(* session_auth: the requests *)

\* The cookie a client can send: none, an id it was given, or an unknown id.
CookieInputs == {None} \cup {Some(n) : n \in 0 .. rnd}

\* session_auth get_current_user: the session is read, then touched.
session_get_current_user(kind, store, cookie, t) ==
    IF cookie = None
    THEN [store |-> store, resp |-> Response(401, "session not found"),
          db |-> <<>>]
    ELSE LET got == get_session(kind, store, cookie[1], t)
         IN  IF kind = "file" /\ got.error # ""
             THEN [store |-> got.store,
                   resp |-> Response(500, "internal server error"),
                   db |-> <<"get_session">>]
             ELSE IF got.result = None
             THEN [store |-> got.store,
                   resp |-> Response(401, "invalid session"),
                   db |-> <<"get_session">>]
             ELSE [store |-> update_session(kind, got.store, cookie[1],
                                            got.result[1].data, t).store,
                   resp |-> [Response(200, "") EXCEPT
                                 !.user = got.result[1].user_id],
                   db |-> <<"get_session", "update_session">>]

SessRegister(email, password, salt) ==
    /\ service = "session_auth"
    /\ now \in StartInstants
    /\ LET r == register(users, userSeq, email, password, salt, now)
       IN  /\ users' = r.users
           /\ userSeq' = r.seq
           /\ resp' = r.resp
           /\ dbcalls' = r.db
    /\ req' = [op |-> "register", email |-> email, password |-> password]
    /\ UNCHANGED <<config, now, vault, rnd, issued, sessions, oauth, conc>>

SessLogin(email, password) ==
    /\ service = "session_auth"
    /\ LET a == authenticate(users, email, password)
       IN  IF a.status # 200
           THEN /\ resp' = a
                /\ dbcalls' = <<"SELECT users">>
                /\ UNCHANGED <<sessions, rnd>>
           ELSE /\ now \in StartInstants
                /\ rnd < MaxSessions
                /\ LET made == create_session(storage, sessions, rnd + 1,
                                              a.user, now)
                   IN  /\ sessions' = made.store
                       /\ rnd' = rnd + 1
                       /\ resp' = [Response(200, "logged in") EXCEPT
                                       !.user = a.user,
                                       !.cookie = Some(made.result)]
                       /\ dbcalls' = <<"SELECT users", "create_session">>
    /\ req' = [op |-> "login", email |-> email, password |-> password]
    /\ UNCHANGED <<config, now, accounts, vault, issued, oauth, conc>>

SessProfile(cookie) ==
    /\ service = "session_auth"
    /\ cookie \in CookieInputs
    /\ LET who == session_get_current_user(storage, sessions, cookie, now)
       IN  /\ sessions' = who.store
           /\ resp' = IF who.resp.status # 200 THEN who.resp
                      ELSE IF ~\E u \in users : u.id = who.resp.user
                           THEN Response(404, "user not found")
                      ELSE who.resp
           /\ dbcalls' = IF who.resp.status # 200 THEN who.db
                         ELSE who.db \o <<"SELECT users">>
    /\ req' = [op |-> "profile", cookie |-> cookie]
    /\ UNCHANGED <<config, now, accounts, vault, rnd, issued, oauth, conc>>

SessLogout(cookie) ==
    /\ service = "session_auth"
    /\ cookie \in CookieInputs
    /\ sessions' = IF cookie = None THEN sessions
                   ELSE delete_session(storage, sessions, cookie[1]).store
    /\ resp' = Response(200, "logged out")
    /\ dbcalls' = IF cookie = None THEN <<>> ELSE <<"delete_session">>
    /\ req' = [op |-> "logout", cookie |-> cookie]
    /\ UNCHANGED <<config, now, accounts, vault, rnd, issued, oauth, conc>>

SessCleanup ==
    /\ service = "session_auth"
    /\ LET swept == cleanup_expired(storage, sessions, now)
       IN  /\ sessions' = swept.store
           /\ resp' = [Response(200, "cleaned") EXCEPT !.count = swept.result]
    /\ dbcalls' = <<"cleanup_expired">>
    /\ req' = [op |-> "cleanup"]
    /\ UNCHANGED <<config, now, accounts, vault, rnd, issued, oauth, conc>>

-----------------------------------------------------------------------------
(* oauth_auth *)

\* What the identity provider reports about a user.
YandexInfos ==
    {[id |-> "y1", default_email |-> "a@x.com", real_name |-> "A"],
     [id |-> "y1", default_email |-> "a2@x.com", real_name |-> "A2"],
     [id |-> "y2", default_email |-> "b@x.com", real_name |-> "B"]}

\* get_or_create_user: the row of the provider id, inserted if missing.
get_or_create_user(tbl, seq, info, t) ==
    IF \E u \in tbl : u.yandex_id = info.id
    THEN [users |-> tbl, seq |-> seq,
          id |-> (CHOOSE u \in tbl : u.yandex_id = info.id).id]
    ELSE [users |-> tbl \cup {[id |-> seq + 1, yandex_id |-> info.id,
                               email |-> info.default_email,
                               name |-> info.real_name,
                               created_at |-> SqlNow(t)]},
          seq |-> seq + 1, id |-> seq + 1]

oauth_create_access_token(user_id, t) ==
    jwt_encode(user_id, t + OauthTtl, "access", SECRET_KEY)

verify_access_token(token, t) ==
    LET payload == jwt_decode(token, t)
    IN  IF ~payload.ok THEN None
        ELSE IF payload.type # "access" THEN None
        ELSE IF payload.sub = NoSub THEN None
        ELSE Some(payload.sub)

oauth_get_current_user(token, t) ==
    LET user_id == verify_access_token(token, t)
    IN  IF user_id = None THEN Response(401, "Invalid token")
        ELSE [Response(200, "") EXCEPT !.user = user_id[1]]

\* GET /auth/yandex/callback, the provider having answered with `info' (or the
\* request carrying no code).
OauthCallback(code, info) ==
    /\ service = "oauth_auth"
    /\ IF code = None
       THEN /\ resp' = Response(400, "authentication error")
            /\ dbcalls' = <<>>
            /\ UNCHANGED <<oauth, issued>>
       ELSE /\ now \in StartInstants
            /\ LET got == get_or_create_user(oauth_users, oauthSeq, info, now)
                   token == oauth_create_access_token(got.id, now)
               IN  /\ oauth_users' = got.users
                   /\ oauthSeq' = got.seq
                   /\ issued' = issued \cup {Handed(token, "callback")}
                   /\ resp' = [Response(302, "") EXCEPT
                                   !.user = got.id, !.access_token = token]
                   /\ dbcalls' = IF got.seq = oauthSeq
                                 THEN <<"SELECT users">>
                                 ELSE <<"SELECT users", "INSERT users">>
    /\ req' = [op |-> "callback", code |-> code, info |-> info]
    /\ UNCHANGED <<config, now, accounts, vault, rnd, sessions, conc>>

OauthProfile(token) ==
    /\ service = "oauth_auth"
    /\ LET who == oauth_get_current_user(token, now)
       IN  /\ resp' = IF who.status # 200 THEN who
                      ELSE IF ~\E u \in oauth_users : u.id = who.user
                           THEN Response(404, "user not found")
                      ELSE who
           /\ dbcalls' = IF who.status = 200 THEN <<"SELECT users">> ELSE <<>>
    /\ req' = [op |-> "profile", token |-> token]
    /\ UNCHANGED <<config, now, accounts, vault, rnd, issued, sessions, oauth,
                   conc>>

OauthLogout ==
    /\ service = "oauth_auth"
    /\ resp' = Response(200, "logged out")
    /\ dbcalls' = <<>>
    /\ req' = [op |-> "logout"]
    /\ UNCHANGED <<config, now, accounts, vault, rnd, issued, sessions, oauth,
                   conc>>

-----------------------------------------------------------------------------
(* The services, one request at a time *)

Services == {"jwt_auth", "session_auth", "oauth_auth"}
StorageTypes == {"sqlite", "file", "memory"}
Threads == {1, 2}
Idle == [pc |-> "idle"]

Init ==
    /\ service \in Services
    /\ storage \in IF service = "session_auth" THEN StorageTypes
                   ELSE {"sqlite"}
    /\ backends = [kind \in StorageTypes |-> {}]
    /\ now = 0
    /\ users = {}
    /\ userSeq = 0
    /\ refresh_tokens = {}
    /\ tokenSeq = 0
    /\ rnd = 0
    /\ issued = {}
    /\ sessions = {}
    /\ oauth_users = {}
    /\ oauthSeq = 0
    /\ req = [op |-> "start"]
    /\ resp = Response(200, "")
    /\ dbcalls = <<>>
    /\ thr = [i \in Threads |-> Idle]
    /\ dbLock = 0

Next ==
    \/ \E e \in Emails, p \in Passwords, s \in Salts : JwtRegister(e, p, s)
    \/ \E e \in Emails, p \in LoginPasswords, s \in Salts : JwtLogin(e, p, s)
    \/ \E tok \in RefreshInputs : JwtRefresh(tok)
    \/ \E tok \in BearerInputs : JwtProfile(tok)
    \/ \E tok \in RefreshInputs : JwtLogout(tok)
    \/ \E e \in Emails, p \in Passwords, s \in Salts : SessRegister(e, p, s)
    \/ \E e \in Emails, p \in LoginPasswords : SessLogin(e, p)
    \/ \E c \in CookieInputs : SessProfile(c)
    \/ \E c \in CookieInputs : SessLogout(c)
    \/ SessCleanup
    \/ \E c \in {None, Some("code")}, i \in YandexInfos : OauthCallback(c, i)
    \/ \E tok \in BearerInputs : OauthProfile(tok)
    \/ OauthLogout
    \/ Tick(Instants)

Spec == Init /\ [][Next]_vars

-----------------------------------------------------------------------------
(* Direct calls of create_access_token and get_current_user (jwt_auth) *)

UserIds == 1 .. Cardinality(Emails)
MaxDelta == TicksPerSecond + 1
TokInstants == (0 .. (MaxStart + MaxDelta + 1)) \cup AroundExp(AccessTtl)

CallCreateAccessToken(uid, expires_delta) ==
    /\ now \in StartInstants
    /\ Cardinality(issued) < MaxAccess
    /\ LET token == create_access_token(uid, expires_delta, now)
       IN  /\ issued' = issued \cup {Made(token, now, expires_delta)}
           /\ resp' = [Response(200, "") EXCEPT !.access_token = token]
    /\ req' = [op |-> "create_access_token", uid |-> uid,
               expires_delta |-> expires_delta]
    /\ dbcalls' = <<>>
    /\ UNCHANGED <<config, now, accounts, vault, rnd, sessions, oauth, conc>>

CallGetCurrentUser(token) ==
    /\ token \in BearerInputs
    /\ resp' = jwt_get_current_user(token, now)
    /\ req' = [op |-> "get_current_user", token |-> token]
    /\ dbcalls' = <<>>
    /\ UNCHANGED <<config, now, accounts, vault, rnd, issued, sessions, oauth,
                   conc>>

InitTok == Init /\ service = "jwt_auth"

NextTok ==
    \/ \E uid \in UserIds, d \in Deltas : CallCreateAccessToken(uid, d)
    \/ \E tok \in BearerInputs : CallGetCurrentUser(tok)
    \/ Tick(TokInstants)

SpecTok == InitTok /\ [][NextTok]_vars

-----------------------------------------------------------------------------
(* Concurrent POST /register requests, one per thread.  An INSERT takes    *)
(* the database's write lock and checks the UNIQUE constraint; the lock is *)
(* held until the commit (or until the connection is closed on an error),  *)
(* and a second writer waits for it.                                       *)

Set(i, rec) == [thr EXCEPT ![i] = rec]

RegBegin(i, email, password) ==
    /\ thr[i].pc = "idle"
    /\ thr' = Set(i, [pc |-> "validate", email |-> email,
                      password |-> password])
    /\ UNCHANGED <<config, now, accounts, vault, rnd, issued, sessions, oauth,
                   last, dbLock>>

RegValidate(i) ==
    /\ thr[i].pc = "validate"
    /\ thr' = IF TooShort(thr[i].password)
              THEN Set(i, [thr[i] EXCEPT !.pc = "done"] @@
                          [resp |-> Response(400,
                               "password must be at least 6 characters")])
              ELSE Set(i, [thr[i] EXCEPT !.pc = "insert"])
    /\ UNCHANGED <<config, now, accounts, vault, rnd, issued, sessions, oauth,
                   last, dbLock>>

\* cursor.execute('INSERT INTO users ...')
RegInsert(i, salt) ==
    /\ thr[i].pc = "insert"
    /\ dbLock = 0
    /\ LET made == create_user(users, userSeq, thr[i].email,
                               thr[i].password, salt, now)
       IN  IF made.id = None
           THEN /\ thr' = Set(i, [thr[i] EXCEPT !.pc = "respond"] @@
                                 [user_id |-> None])
                /\ UNCHANGED dbLock
           ELSE /\ thr' = Set(i, [thr[i] EXCEPT !.pc = "commit"] @@
                                 [user_id |-> made.id, made |-> made])
                /\ dbLock' = i
    /\ UNCHANGED <<config, now, accounts, vault, rnd, issued, sessions, oauth,
                   last>>

\* conn.commit()
RegCommit(i) ==
    /\ thr[i].pc = "commit"
    /\ dbLock = i
    /\ users' = thr[i].made.users
    /\ userSeq' = thr[i].made.seq
    /\ dbLock' = 0
    /\ thr' = Set(i, [pc |-> "respond", email |-> thr[i].email,
                      password |-> thr[i].password,
                      user_id |-> thr[i].user_id])
    /\ UNCHANGED <<config, now, vault, rnd, issued, sessions, oauth, last>>

RegRespond(i) ==
    /\ thr[i].pc = "respond"
    /\ thr' = Set(i, [thr[i] EXCEPT !.pc = "done"] @@
                     [resp |-> IF thr[i].user_id = None
                               THEN Response(400, "email already registered")
                               ELSE Response(200, "registered")])
    /\ UNCHANGED <<config, now, accounts, vault, rnd, issued, sessions, oauth,
                   last, dbLock>>

InitReg == Init /\ service \in {"jwt_auth", "session_auth"}
                /\ storage = "sqlite"

NextReg ==
    \/ \E i \in Threads, e \in Emails, p \in Passwords : RegBegin(i, e, p)
    \/ \E i \in Threads : RegValidate(i)
    \/ \E i \in Threads, s \in Salts : RegInsert(i, s)
    \/ \E i \in Threads : RegCommit(i)
    \/ \E i \in Threads : RegRespond(i)

SpecReg == InitReg /\ [][NextReg]_vars

-----------------------------------------------------------------------------
(* jwt_auth: POST /refresh and POST /logout served by concurrent threads.  *)
(* refresh_tokens is the committed table; each statement of a request is a *)
(* step.                                                                   *)

\* create_refresh_token as called by a login.
IssueRefreshToken(uid, salt) ==
    /\ tokenSeq < MaxRefresh
    /\ dbLock = 0
    /\ refresh_tokens' = create_refresh_token(refresh_tokens, tokenSeq, uid,
                                              Opaque(rnd + 1), salt, now)
    /\ tokenSeq' = tokenSeq + 1
    /\ rnd' = rnd + 1
    /\ UNCHANGED <<config, now, accounts, issued, sessions, oauth, last, conc>>

\* POST /refresh or POST /logout arrives with a refresh token.
TokBegin(i, op, token) ==
    /\ thr[i].pc = "idle"
    /\ token \in {Opaque(n) : n \in 1 .. rnd}
    /\ thr' = Set(i, [pc |-> "select", op |-> op, token |-> token])
    /\ UNCHANGED <<config, now, accounts, vault, rnd, issued, sessions, oauth,
                   last, dbLock>>

\* SELECT ... WHERE expires_at > datetime('now'); fetchall()
TokSelect(i) ==
    /\ thr[i].pc = "select"
    /\ thr' = Set(i, [thr[i] EXCEPT !.pc = "match"] @@
                     [tokens |-> ActiveTokens(refresh_tokens, now)])
    /\ UNCHANGED <<config, now, accounts, vault, rnd, issued, sessions, oauth,
                   last, dbLock>>

\* verify_refresh_token: the loop over the fetched rows, after conn.close(),
\* and the answer of POST /refresh.
VerifyReturn(i) ==
    /\ thr[i].pc = "match" /\ thr[i].op = "refresh"
    /\ LET user_id == verify_refresh_token(thr[i].tokens, thr[i].token, now)
       IN  resp' = IF user_id = None
                   THEN Response(401, "invalid refresh token")
                   ELSE [Response(200, "") EXCEPT
                             !.user = user_id[1],
                             !.access_token =
                                 create_access_token(user_id[1], None, now),
                             !.refresh_token = thr[i].token]
    /\ req' = [op |-> "refresh", token |-> thr[i].token]
    /\ dbcalls' = <<"SELECT refresh_tokens">>
    /\ thr' = Set(i, Idle)
    /\ UNCHANGED <<config, now, accounts, vault, rnd, issued, sessions, oauth,
                   dbLock>>

\* revoke_refresh_token: the loop over the fetched rows and the DELETE of the
\* first match, which takes the write lock of the database.
RevokeDelete(i) ==
    /\ thr[i].pc = "match" /\ thr[i].op = "logout"
    /\ LET found == Matching(thr[i].tokens, thr[i].token, now)
       IN  IF found = {}
           THEN /\ thr' = Set(i, [thr[i] EXCEPT !.pc = "commit"] @@
                                 [deleted |-> {}])
                /\ UNCHANGED dbLock
           ELSE /\ dbLock = 0
                /\ dbLock' = i
                /\ thr' = Set(i, [thr[i] EXCEPT !.pc = "commit"] @@
                                 [deleted |-> {First(found).id}])
    /\ UNCHANGED <<config, now, accounts, vault, rnd, issued, sessions, oauth,
                   last>>

\* conn.commit(), conn.close() and the answer of POST /logout.
RevokeCommit(i) ==
    /\ thr[i].pc = "commit"
    /\ refresh_tokens' = {r \in refresh_tokens : r.id \notin thr[i].deleted}
    /\ dbLock' = IF dbLock = i THEN 0 ELSE dbLock
    /\ resp' = Response(200, "logged out")
    /\ req' = [op |-> "logout", token |-> thr[i].token]
    /\ dbcalls' = IF thr[i].deleted = {} THEN <<"SELECT refresh_tokens">>
                  ELSE <<"SELECT refresh_tokens", "DELETE refresh_tokens">>
    /\ thr' = Set(i, Idle)
    /\ UNCHANGED <<config, now, accounts, tokenSeq, rnd, issued, sessions,
                   oauth>>

InitRevoke == Init /\ service = "jwt_auth"

NextRevoke ==
    \/ \E uid \in UserIds, salt \in Salts : IssueRefreshToken(uid, salt)
    \/ \E i \in Threads, op \in {"refresh", "logout"}, n \in 1 .. MaxRefresh :
           TokBegin(i, op, Opaque(n))
    \/ \E i \in Threads : TokSelect(i)
    \/ \E i \in Threads : VerifyReturn(i)
    \/ \E i \in Threads : RevokeDelete(i)
    \/ \E i \in Threads : RevokeCommit(i)

SpecRevoke == InitRevoke /\ [][NextRevoke]_vars

-----------------------------------------------------------------------------
(* session_auth: the session store used by concurrent request threads.    *)
(* Each access to the files of the session directory, to the dictionary   *)
(* or to the database is a step.  A thread that has returned keeps the    *)
(* operation, its result and the exception that left it ("" if none).     *)

StoreOps == {"create_session", "get_session", "update_session",
             "delete_session", "cleanup_expired", "get_current_user"}

GetPcs == {"g_exists", "g_load", "g_remove", "g_heal", "g_heal_remove"}
UpdatePcs == {"u_exists", "u_load", "u_remove", "u_open", "u_dump"}

\* The first statement of an operation.
FirstPc(op) ==
    IF op = "create_session" THEN "c_open"
    ELSE IF op \in {"get_session", "get_current_user"} THEN "g_exists"
    ELSE IF op = "update_session" THEN "u_exists"
    ELSE IF op = "delete_session" THEN "d_exists"
    ELSE "s_list"

\* The ids a client holds: those a create_session has returned.
KnownIds ==
    (1 .. rnd) \ {thr[i].id : i \in {k \in Threads :
                                         /\ thr[k].pc \notin {"idle", "done"}
                                         /\ thr[k].op = "create_session"}}

\* The file of a session opened for writing and not written yet.
EmptyFile == <<"text", "">>

Ret(i, result, error) ==
    Set(i, [pc |-> "done", op |-> thr[i].op, id |-> thr[i].id,
            data |-> thr[i].data, result |-> result, error |-> error])

\* get_session returns: to its caller, or to get_current_user, which answers
\* 401 without a session and goes on to update_session with one.
GetRet(i, result, error) ==
    IF thr[i].op = "get_session" THEN Ret(i, result, error)
    ELSE IF error # "" THEN Ret(i, 500, error)
    ELSE IF result = None THEN Ret(i, 401, "")
    ELSE Set(i, [thr[i] EXCEPT !.pc = "u_exists",
                               !.data = result[1].data])

\* update_session returns: to its caller, or to get_current_user, which does
\* not look at the result.
UpdRet(i, result, error) ==
    IF thr[i].op = "update_session" THEN Ret(i, result, error)
    ELSE IF error # "" THEN Ret(i, 500, error)
    ELSE Ret(i, 200, "")

\* The return of the operation that the statement at thr[i].pc belongs to.
OpRet(i, result, error) ==
    IF thr[i].pc \in GetPcs THEN GetRet(i, result, error)
    ELSE IF thr[i].pc \in UpdatePcs THEN UpdRet(i, result, error)
    ELSE Ret(i, result, error)

\* What get_session, and what update_session or delete_session, return when
\* they find nothing.
NotFound(pc) == IF pc \in GetPcs THEN None ELSE FALSE

\* A request thread enters an operation of the store; create_session draws
\* its session id.
StoreBegin(i, op, id, data) ==
    /\ thr[i].pc \in {"idle", "done"}
    /\ IF op = "create_session"
       THEN /\ rnd < MaxSessions /\ id = rnd + 1
            /\ now \in StartInstants
            /\ rnd' = rnd + 1
       ELSE /\ IF op = "cleanup_expired" THEN id = 0 ELSE id \in KnownIds
            /\ UNCHANGED rnd
    /\ op # "update_session" => data = EmptyData
    /\ thr' = Set(i, [pc |-> FirstPc(op), op |-> op, id |-> id,
                      data |-> data])
    /\ UNCHANGED <<config, now, accounts, vault, issued, sessions, oauth,
                   last, dbLock>>

\* SQLiteSessionStorage: each operation is one statement and its commit.
SqlStatement(i) ==
    /\ storage = "sqlite"
    /\ thr[i].pc \in {"c_open", "g_exists", "u_exists", "d_exists", "s_list"}
    /\ LET id == thr[i].id
           out == IF thr[i].pc = "c_open"
                  THEN sqlite_create_session(sessions, id, 1, now)
                  ELSE IF thr[i].pc = "g_exists"
                  THEN sqlite_get_session(sessions, id, now)
                  ELSE IF thr[i].pc = "u_exists"
                  THEN sqlite_update_session(sessions, id, thr[i].data, now)
                  ELSE IF thr[i].pc = "d_exists"
                  THEN sqlite_delete_session(sessions, id)
                  ELSE sqlite_cleanup_expired(sessions, now)
       IN  /\ sessions' = out.store
           /\ thr' = OpRet(i, out.result, "")
    /\ UNCHANGED <<config, now, accounts, vault, rnd, issued, oauth, last,
                   dbLock>>

\* FileSessionStorage: os.path.exists(session_file)
FileExists(i) ==
    /\ storage = "file"
    /\ thr[i].pc \in {"g_exists", "u_exists", "d_exists", "g_heal"}
    /\ thr' = IF ~Has(sessions, thr[i].id)
              THEN OpRet(i, NotFound(thr[i].pc), "")
              ELSE Set(i, [thr[i] EXCEPT !.pc =
                              IF @ = "g_exists" THEN "g_load"
                              ELSE IF @ = "u_exists" THEN "u_load"
                              ELSE IF @ = "d_exists" THEN "d_remove"
                              ELSE "g_heal_remove"])
    /\ UNCHANGED <<config, now, accounts, vault, rnd, issued, sessions, oauth,
                   last, dbLock>>

\* FileSessionStorage: open(session_file, 'r'), json.load and the test of
\* expires_at, in get_session and update_session.
FileLoad(i) ==
    /\ storage = "file"
    /\ thr[i].pc \in {"g_load", "u_load"}
    /\ LET id == thr[i].id
           body == Entry(sessions, id).body
       IN  thr' =
             IF ~Has(sessions, id)
             THEN OpRet(i, NotFound(thr[i].pc), "FileNotFoundError")
             ELSE IF file_error(body) \in Caught
             THEN IF thr[i].pc = "g_load"
                  THEN Set(i, [thr[i] EXCEPT !.pc = "g_heal"])
                  ELSE OpRet(i, FALSE, "")
             ELSE IF file_error(body) # ""
             THEN OpRet(i, NotFound(thr[i].pc), file_error(body))
             ELSE IF Expired(json_loads(body), now)
             THEN Set(i, [thr[i] EXCEPT !.pc = IF @ = "g_load"
                                               THEN "g_remove"
                                               ELSE "u_remove"])
             ELSE IF thr[i].pc = "g_load"
             THEN OpRet(i, Some(json_loads(body)), "")
             ELSE Set(i, [thr[i] EXCEPT !.pc = "u_open"] @@
                         [content |-> json_dumps([json_loads(body) EXCEPT
                                         !.last_activity = isoformat(now),
                                         !.data = thr[i].data])])
    /\ UNCHANGED <<config, now, accounts, vault, rnd, issued, sessions, oauth,
                   last, dbLock>>

\* FileSessionStorage: os.remove(session_file) in get_session,
\* update_session and delete_session.
FileRemove(i) ==
    /\ storage = "file"
    /\ thr[i].pc \in {"g_remove", "u_remove", "d_remove", "g_heal_remove"}
    /\ IF ~Has(sessions, thr[i].id)
       THEN /\ thr' = OpRet(i, NotFound(thr[i].pc), "FileNotFoundError")
            /\ UNCHANGED sessions
       ELSE /\ sessions' = Drop(sessions, thr[i].id)
            /\ thr' = OpRet(i, IF thr[i].pc = "d_remove" THEN TRUE
                               ELSE NotFound(thr[i].pc), "")
    /\ UNCHANGED <<config, now, accounts, vault, rnd, issued, oauth, last,
                   dbLock>>

\* FileSessionStorage: open(session_file, 'w') in create_session and
\* update_session creates the file, or empties the one there is.
FileOpenW(i) ==
    /\ storage = "file"
    /\ thr[i].pc \in {"c_open", "u_open"}
    /\ sessions' = Put(sessions, thr[i].id, EmptyFile)
    /\ thr' = IF thr[i].pc = "u_open"
              THEN Set(i, [thr[i] EXCEPT !.pc = "u_dump"])
              ELSE Set(i, [thr[i] EXCEPT !.pc = "c_dump"] @@
                          [content |-> json_dumps(
                                           session_dict(thr[i].id, 1, now))])
    /\ UNCHANGED <<config, now, accounts, vault, rnd, issued, oauth, last,
                   dbLock>>

\* A file that holds the head of one text and the tail of another.
MixedFile == <<"text", "mixed">>

\* The length of the text of a session: the texts differ in length by their
\* data.
TextLen(body) == Len(json_loads(body).data)

\* The file after `mine' is written from its start over what is `there':
\* each writer has its own position in the file, and what a shorter text
\* does not cover stays.
Overwritten(mine, there) ==
    IF there = EmptyFile THEN mine
    ELSE IF there[1] # "json" THEN MixedFile
    ELSE IF TextLen(mine) >= TextLen(there) THEN mine
    ELSE MixedFile

\* FileSessionStorage: json.dump into the file opened for writing, and the
\* return.  If the file was removed meanwhile the text goes to a file that
\* no longer has a name.
FileDump(i) ==
    /\ storage = "file"
    /\ thr[i].pc \in {"c_dump", "u_dump"}
    /\ sessions' = IF Has(sessions, thr[i].id)
                   THEN Put(sessions, thr[i].id,
                            Overwritten(thr[i].content,
                                        Entry(sessions, thr[i].id).body))
                   ELSE sessions
    /\ thr' = OpRet(i, IF thr[i].pc = "c_dump" THEN thr[i].id ELSE TRUE, "")
    /\ UNCHANGED <<config, now, accounts, vault, rnd, issued, oauth, last,
                   dbLock>>

\* What is left of a pass of cleanup_expired: `listed' to look at, `count'
\* removed so far.
Sweep(i, listed, count) ==
    IF listed = {} THEN Ret(i, count, "")
    ELSE Set(i, [pc |-> "s_load", op |-> thr[i].op, id |-> thr[i].id,
                 data |-> thr[i].data, listed |-> listed, count |-> count])

\* FileSessionStorage.cleanup_expired: os.listdir(self.sessions_dir)
FileListdir(i) ==
    /\ storage = "file"
    /\ thr[i].pc = "s_list"
    /\ thr' = Sweep(i, {e.id : e \in sessions}, 0)
    /\ UNCHANGED <<config, now, accounts, vault, rnd, issued, sessions, oauth,
                   last, dbLock>>

\* FileSessionStorage.cleanup_expired: the next file is opened and loaded.
FileSweepLoad(i, id) ==
    /\ storage = "file"
    /\ thr[i].pc = "s_load"
    /\ id \in thr[i].listed
    /\ LET body == Entry(sessions, id).body
       IN  thr' =
             IF ~Has(sessions, id) THEN Ret(i, 0, "FileNotFoundError")
             ELSE IF file_error(body) \notin Caught \cup {""}
             THEN Ret(i, 0, file_error(body))
             ELSE IF \/ file_error(body) \in Caught
                     \/ Expired(json_loads(body), now)
             THEN Set(i, [thr[i] EXCEPT !.pc = "s_remove", !.id = id])
             ELSE Sweep(i, thr[i].listed \ {id}, thr[i].count)
    /\ UNCHANGED <<config, now, accounts, vault, rnd, issued, sessions, oauth,
                   last, dbLock>>

\* FileSessionStorage.cleanup_expired: os.remove(session_file)
FileSweepRemove(i) ==
    /\ storage = "file"
    /\ thr[i].pc = "s_remove"
    /\ IF ~Has(sessions, thr[i].id)
       THEN /\ thr' = Ret(i, 0, "FileNotFoundError")
            /\ UNCHANGED sessions
       ELSE /\ sessions' = Drop(sessions, thr[i].id)
            /\ thr' = Sweep(i, thr[i].listed \ {thr[i].id}, thr[i].count + 1)
    /\ UNCHANGED <<config, now, accounts, vault, rnd, issued, oauth, last,
                   dbLock>>

\* MemorySessionStorage: `session_id not in self.sessions'
MemContains(i) ==
    /\ storage = "memory"
    /\ thr[i].pc \in {"g_exists", "u_exists", "d_exists"}
    /\ thr' = IF ~Has(sessions, thr[i].id)
              THEN OpRet(i, NotFound(thr[i].pc), "")
              ELSE Set(i, [thr[i] EXCEPT !.pc =
                              IF @ = "g_exists" THEN "g_load"
                              ELSE IF @ = "u_exists" THEN "u_load"
                              ELSE "d_remove"])
    /\ UNCHANGED <<config, now, accounts, vault, rnd, issued, sessions, oauth,
                   last, dbLock>>

\* MemorySessionStorage: `self.sessions[session_id]' and the test of
\* expires_at, in get_session and update_session.
MemLookup(i) ==
    /\ storage = "memory"
    /\ thr[i].pc \in {"g_load", "u_load"}
    /\ LET id == thr[i].id
           session_data == Entry(sessions, id).body
       IN  thr' =
             IF ~Has(sessions, id)
             THEN OpRet(i, NotFound(thr[i].pc), "KeyError")
             ELSE IF Expired(session_data, now)
             THEN Set(i, [thr[i] EXCEPT !.pc = IF @ = "g_load"
                                               THEN "g_remove"
                                               ELSE "u_remove"])
             ELSE IF thr[i].pc = "g_load"
             THEN OpRet(i, Some(session_data), "")
             ELSE Set(i, [thr[i] EXCEPT !.pc = "u_dump"])
    /\ UNCHANGED <<config, now, accounts, vault, rnd, issued, sessions, oauth,
                   last, dbLock>>

\* MemorySessionStorage: `del self.sessions[session_id]' in get_session,
\* update_session and delete_session.
MemDel(i) ==
    /\ storage = "memory"
    /\ thr[i].pc \in {"g_remove", "u_remove", "d_remove"}
    /\ IF ~Has(sessions, thr[i].id)
       THEN /\ thr' = OpRet(i, NotFound(thr[i].pc), "KeyError")
            /\ UNCHANGED sessions
       ELSE /\ sessions' = Drop(sessions, thr[i].id)
            /\ thr' = OpRet(i, IF thr[i].pc = "d_remove" THEN TRUE
                               ELSE NotFound(thr[i].pc), "")
    /\ UNCHANGED <<config, now, accounts, vault, rnd, issued, oauth, last,
                   dbLock>>

\* MemorySessionStorage: the assignment `self.sessions[session_id] = {...}'
\* of create_session, and the assignments to the fields of the dictionary
\* update_session looked up, which change the store only while the
\* dictionary is still in it.
MemStore(i) ==
    /\ storage = "memory"
    /\ thr[i].pc \in {"c_open", "u_dump"}
    /\ LET id == thr[i].id
       IN  sessions' =
             IF thr[i].pc = "c_open"
             THEN Put(sessions, id, session_dict(id, 1, now))
             ELSE IF Has(sessions, id)
             THEN Put(sessions, id, [Entry(sessions, id).body EXCEPT
                                         !.last_activity = isoformat(now),
                                         !.data = thr[i].data])
             ELSE sessions
    /\ thr' = OpRet(i, IF thr[i].pc = "c_open" THEN thr[i].id ELSE TRUE, "")
    /\ UNCHANGED <<config, now, accounts, vault, rnd, issued, oauth, last,
                   dbLock>>

\* MemorySessionStorage.cleanup_expired: the loop over
\* self.sessions.items() begins; the iterator remembers the size.
MemItems(i) ==
    /\ storage = "memory"
    /\ thr[i].pc = "s_list"
    /\ thr' = Set(i, [pc |-> "s_load", op |-> thr[i].op, id |-> thr[i].id,
                      data |-> thr[i].data, size |-> Cardinality(sessions),
                      listed |-> {e.id : e \in sessions}, expired |-> {},
                      count |-> 0])
    /\ UNCHANGED <<config, now, accounts, vault, rnd, issued, sessions, oauth,
                   last, dbLock>>

\* MemorySessionStorage.cleanup_expired: one turn of the loop.  The iterator
\* raises RuntimeError when the dictionary has changed size.
MemNext(i) ==
    /\ storage = "memory"
    /\ thr[i].pc = "s_load"
    /\ thr' =
         IF Cardinality(sessions) # thr[i].size
         THEN Ret(i, 0, "RuntimeError")
         ELSE IF thr[i].listed = {}
         THEN IF thr[i].expired = {} THEN Ret(i, 0, "")
              ELSE Set(i, [thr[i] EXCEPT !.pc = "s_remove"])
         ELSE LET id == CHOOSE x \in thr[i].listed :
                            \A y \in thr[i].listed : x <= y
              IN  Set(i, [thr[i] EXCEPT
                      !.listed = @ \ {id},
                      !.expired = IF Has(sessions, id)
                                     /\ Expired(Entry(sessions, id).body, now)
                                  THEN @ \cup {id} ELSE @])
    /\ UNCHANGED <<config, now, accounts, vault, rnd, issued, sessions, oauth,
                   last, dbLock>>

\* MemorySessionStorage.cleanup_expired: `del self.sessions[session_id]' for
\* the next collected id.
MemSweepDel(i) ==
    /\ storage = "memory"
    /\ thr[i].pc = "s_remove"
    /\ LET id == CHOOSE x \in thr[i].expired :
                     \A y \in thr[i].expired : x <= y
       IN  IF ~Has(sessions, id)
           THEN /\ thr' = Ret(i, 0, "KeyError")
                /\ UNCHANGED sessions
           ELSE /\ sessions' = Drop(sessions, id)
                /\ thr' = IF thr[i].expired = {id}
                          THEN Ret(i, thr[i].count + 1, "")
                          ELSE Set(i, [thr[i] EXCEPT
                                           !.expired = @ \ {id},
                                           !.count = @ + 1])
    /\ UNCHANGED <<config, now, accounts, vault, rnd, issued, oauth, last,
                   dbLock>>

\* The instants of the concurrent runs: the start and one past every expiry.
SweepInstants == {0, MaxStart + SessionTtl + 1}

InitSess == Init /\ service = "session_auth"

NextSess ==
    \/ \E i \in Threads, op \in StoreOps, id \in 0 .. MaxSessions,
              data \in SessionData :
           StoreBegin(i, op, id, data)
    \/ \E i \in Threads : SqlStatement(i)
    \/ \E i \in Threads : FileExists(i)
    \/ \E i \in Threads : FileLoad(i)
    \/ \E i \in Threads : FileRemove(i)
    \/ \E i \in Threads : FileOpenW(i)
    \/ \E i \in Threads : FileDump(i)
    \/ \E i \in Threads : FileListdir(i)
    \/ \E i \in Threads, id \in 1 .. MaxSessions : FileSweepLoad(i, id)
    \/ \E i \in Threads : FileSweepRemove(i)
    \/ \E i \in Threads : MemContains(i)
    \/ \E i \in Threads : MemLookup(i)
    \/ \E i \in Threads : MemDel(i)
    \/ \E i \in Threads : MemStore(i)
    \/ \E i \in Threads : MemItems(i)
    \/ \E i \in Threads : MemNext(i)
    \/ \E i \in Threads : MemSweepDel(i)
    \/ Tick(SweepInstants)

SpecSess == InitSess /\ [][NextSess]_vars

-----------------------------------------------------------------------------
(* Direct calls of the session store (session_auth), with the session     *)
(* directory open to damage by a partial write when the store is the file *)
(* store.                                                                 *)

\* Session files json.load or the reading of expires_at fails on: a text cut
\* short, an object without expires_at, a date that is none, and JSON that
\* is no object.
DamagedBodies ==
    {<<"text", "{\"session_id\": ">>,
     json_dumps([data |-> EmptyData]),
     json_dumps([expires_at |-> <<"text", "tomorrow">>]),
     <<"json-array", <<>>>>}

\* The ids a caller can name: 0 was never given out.
SessionIds == 0 .. rnd

\* The exception leaving an operation of the store, "" if none.
ErrorOf(out) == IF storage = "file" THEN out.error ELSE ""

CallCreateSession(uid) ==
    /\ now \in StartInstants
    /\ rnd < MaxSessions
    /\ LET out == create_session(storage, sessions, rnd + 1, uid, now)
       IN  /\ sessions' = out.store
           /\ resp' = [result |-> out.result, error |-> ErrorOf(out)]
    /\ rnd' = rnd + 1
    /\ req' = [op |-> "create_session", user_id |-> uid]
    /\ dbcalls' = <<>>
    /\ UNCHANGED <<config, now, accounts, vault, issued, oauth, conc>>

CallGetSession(id) ==
    /\ id \in SessionIds
    /\ LET out == get_session(storage, sessions, id, now)
       IN  /\ sessions' = out.store
           /\ resp' = [result |-> out.result, error |-> ErrorOf(out)]
    /\ req' = [op |-> "get_session", session_id |-> id]
    /\ dbcalls' = <<>>
    /\ UNCHANGED <<config, now, accounts, vault, rnd, issued, oauth, conc>>

CallUpdateSession(id, data) ==
    /\ id \in SessionIds
    /\ LET out == update_session(storage, sessions, id, data, now)
       IN  /\ sessions' = out.store
           /\ resp' = [result |-> out.result, error |-> ErrorOf(out)]
    /\ req' = [op |-> "update_session", session_id |-> id, data |-> data]
    /\ dbcalls' = <<>>
    /\ UNCHANGED <<config, now, accounts, vault, rnd, issued, oauth, conc>>

CallDeleteSession(id) ==
    /\ id \in SessionIds
    /\ LET out == delete_session(storage, sessions, id)
       IN  /\ sessions' = out.store
           /\ resp' = [result |-> out.result, error |-> ErrorOf(out)]
    /\ req' = [op |-> "delete_session", session_id |-> id]
    /\ dbcalls' = <<>>
    /\ UNCHANGED <<config, now, accounts, vault, rnd, issued, oauth, conc>>

CallCleanupExpired ==
    /\ \E listed \in IF storage = "file" THEN Listings(sessions)
                      ELSE {sessions} :
           LET out == IF storage = "file"
                      THEN file_cleanup_pass(sessions, listed, now)
                      ELSE cleanup_expired(storage, sessions, now)
           IN  /\ sessions' = out.store
               /\ resp' = [result |-> out.result, error |-> ErrorOf(out)]
    /\ req' = [op |-> "cleanup_expired"]
    /\ dbcalls' = <<>>
    /\ UNCHANGED <<config, now, accounts, vault, rnd, issued, oauth, conc>>

\* A session file is left damaged.
Damage(id, body) ==
    /\ storage = "file"
    /\ Has(sessions, id)
    /\ sessions' = Put(sessions, id, body)
    /\ req' = [op |-> "damage", session_id |-> id]
    /\ UNCHANGED <<config, now, accounts, vault, rnd, issued, oauth, resp,
                   dbcalls, conc>>

InitStore == Init /\ service = "session_auth"

NextStore ==
    \/ \E uid \in UserIds : CallCreateSession(uid)
    \/ \E id \in SessionIds : CallGetSession(id)
    \/ \E id \in SessionIds, data \in SessionData : CallUpdateSession(id, data)
    \/ \E id \in SessionIds : CallDeleteSession(id)
    \/ CallCleanupExpired
    \/ \E id \in SessionIds, body \in DamagedBodies : Damage(id, body)
    \/ Tick(SessionInstants)

SpecStore == InitStore /\ [][NextStore]_vars

-----------------------------------------------------------------------------
(* session_auth: the three stores side by side.  Each call is made on a    *)
(* SQLite, a file and a memory store at the same instant with the same     *)
(* arguments (uuid4 is taken to draw the same id for the three); resp      *)
(* holds the three results.                                                *)

\* The ids get_session would hand a record out for.
Live(kind, store, t) ==
    {e.id : e \in {x \in store :
                      get_session(kind, store, x.id, t).result # None}}

Each(out) ==
    /\ backends' = [kind \in StorageTypes |-> out[kind].store]
    /\ resp' = [kind \in StorageTypes |-> out[kind].result]
    /\ dbcalls' = <<>>
    /\ UNCHANGED <<service, storage, now, accounts, vault, issued, sessions,
                   oauth, conc>>

EachCreateSession(uid) ==
    /\ now \in StartInstants
    /\ rnd < MaxSessions
    /\ Each([kind \in StorageTypes |->
                 create_session(kind, backends[kind], rnd + 1, uid, now)])
    /\ rnd' = rnd + 1
    /\ req' = [op |-> "create_session", user_id |-> uid]

EachGetSession(id) ==
    /\ Each([kind \in StorageTypes |->
                 get_session(kind, backends[kind], id, now)])
    /\ req' = [op |-> "get_session", session_id |-> id]
    /\ UNCHANGED rnd

EachUpdateSession(id, data) ==
    /\ Each([kind \in StorageTypes |->
                 update_session(kind, backends[kind], id, data, now)])
    /\ req' = [op |-> "update_session", session_id |-> id, data |-> data]
    /\ UNCHANGED rnd

EachDeleteSession(id) ==
    /\ Each([kind \in StorageTypes |->
                 delete_session(kind, backends[kind], id)])
    /\ req' = [op |-> "delete_session", session_id |-> id]
    /\ UNCHANGED rnd

EachCleanupExpired ==
    /\ Each([kind \in StorageTypes |->
                 cleanup_expired(kind, backends[kind], now)])
    /\ req' = [op |-> "cleanup_expired"]
    /\ UNCHANGED rnd

\* Time passes, from the instants of the logins to one past every expiry.
EachTick ==
    /\ \E t \in {0, MaxStart + SessionTtl + 1} : t > now /\ now' = t
    /\ UNCHANGED <<config, accounts, vault, rnd, issued, sessions, oauth, last,
                   conc>>

InitEach == Init /\ service = "session_auth" /\ storage = "sqlite"

NextEach ==
    \/ \E uid \in UserIds : EachCreateSession(uid)
    \/ \E id \in SessionIds : EachGetSession(id)
    \/ \E id \in SessionIds, data \in SessionData : EachUpdateSession(id, data)
    \/ \E id \in SessionIds : EachDeleteSession(id)
    \/ EachCleanupExpired
    \/ EachTick

SpecEach == InitEach /\ [][NextEach]_vars

-----------------------------------------------------------------------------
(* oauth_auth: get_or_create_user called by concurrent requests (several   *)
(* server processes share oauth_users.db).  A call opens a connection,     *)
(* SELECTs by yandex_id, and INSERTs and commits when it found no row.  A  *)
(* thread that has left the call keeps its result, the exception that left *)
(* it ("" if none) and whether its connection is still open.               *)

\* The provider's answer may lack default_email; the column is NOT NULL.
NoEmail == "(missing)"
GocInfos ==
    YandexInfos
        \cup {[id |-> "y2", default_email |-> NoEmail, real_name |-> "B"]}

\* sqlite3.connect('oauth_users.db')
GocBegin(i, info) ==
    /\ thr[i].pc \in {"idle", "done"}
    /\ thr' = Set(i, [pc |-> "select", op |-> "get_or_create_user",
                      info |-> info, conn |-> TRUE])
    /\ UNCHANGED <<config, now, accounts, vault, rnd, issued, sessions, oauth,
                   last, dbLock>>

\* SELECT ... WHERE yandex_id = ?; fetchone(); a row found is returned after
\* conn.close().
GocSelect(i) ==
    /\ thr[i].pc = "select"
    /\ thr' = IF \E u \in oauth_users : u.yandex_id = thr[i].info.id
              THEN Set(i, [pc |-> "done", op |-> thr[i].op,
                           info |-> thr[i].info, conn |-> FALSE,
                           result |-> get_or_create_user(oauth_users, oauthSeq,
                                                         thr[i].info, now).id,
                           error |-> ""])
              ELSE Set(i, [thr[i] EXCEPT !.pc = "insert"])
    /\ UNCHANGED <<config, now, accounts, vault, rnd, issued, sessions, oauth,
                   last, dbLock>>

\* INSERT INTO users ...: waits for the write lock, then checks UNIQUE
\* (yandex_id) and NOT NULL (email); a violation raises IntegrityError, which
\* nothing in get_or_create_user catches.
GocInsert(i) ==
    /\ thr[i].pc = "insert"
    /\ dbLock = 0
    /\ IF \/ \E u \in oauth_users : u.yandex_id = thr[i].info.id
          \/ thr[i].info.default_email = NoEmail
       THEN /\ thr' = Set(i, [pc |-> "done", op |-> thr[i].op,
                              info |-> thr[i].info, conn |-> TRUE,
                              result |-> 0, error |-> "IntegrityError"])
            /\ UNCHANGED dbLock
       ELSE /\ thr' = Set(i, [thr[i] EXCEPT !.pc = "commit"] @@
                             [made |-> get_or_create_user(
                                           oauth_users, oauthSeq,
                                           thr[i].info, now)])
            /\ dbLock' = i
    /\ UNCHANGED <<config, now, accounts, vault, rnd, issued, sessions, oauth,
                   last>>

\* conn.commit(); cursor.lastrowid; conn.close(); return
GocCommit(i) ==
    /\ thr[i].pc = "commit"
    /\ dbLock = i
    /\ oauth_users' = thr[i].made.users
    /\ oauthSeq' = thr[i].made.seq
    /\ dbLock' = 0
    /\ thr' = Set(i, [pc |-> "done", op |-> thr[i].op, info |-> thr[i].info,
                      conn |-> FALSE, result |-> thr[i].made.id,
                      error |-> ""])
    /\ UNCHANGED <<config, now, accounts, vault, rnd, issued, sessions, last>>

InitGoc == Init /\ service = "oauth_auth"

NextGoc ==
    \/ \E i \in Threads, info \in GocInfos : GocBegin(i, info)
    \/ \E i \in Threads : GocSelect(i)
    \/ \E i \in Threads : GocInsert(i)
    \/ \E i \in Threads : GocCommit(i)

SpecGoc == InitGoc /\ [][NextGoc]_vars

-----------------------------------------------------------------------------
(* Properties *)

\* The secret a refresh_tokens row was made from, and the rows made from a
\* given secret, read off the stored hash without the code's own matching.
SecretOf(r) == r.token_hash[3][2]
RowsOf(tbl, token) == {r \in tbl : SecretOf(r) = token}
\* The users a pair (email, password) was registered for.
RegisteredAs(tbl, email, password) ==
    {u \in tbl : u.email = email
                 /\ u.password_hash[3] = <<u.password_hash[2], password>>}

\* C1: a refresh token handed out by a login verifies to the user it was
\* made for at every instant before its expiry, whatever else is issued or
\* revoked meanwhile; once a logout (revoke_refresh_token) with a token has
\* returned, verify_refresh_token gives None for it at that and every later
\* instant, and POST /refresh with it answers 401.
C1_Step ==
    /\ (service = "jwt_auth" /\ rnd' # rnd)
         => /\ RowsOf(refresh_tokens, resp'.refresh_token) = {}
            /\ verify_refresh_token(refresh_tokens', resp'.refresh_token,
                                    now') = Some(resp'.user)
    /\ \A r \in refresh_tokens :
         (now' < r.expires_at
            /\ ~(req'.op = "logout" /\ req'.token = SecretOf(r)))
           => verify_refresh_token(refresh_tokens', SecretOf(r), now')
                = Some(r.user_id)
    /\ (req'.op = "logout" /\ service = "jwt_auth")
         => verify_refresh_token(refresh_tokens', req'.token, now') = None
    /\ \A tok \in RefreshInputs :
         verify_refresh_token(refresh_tokens, tok, now) = None
           => verify_refresh_token(refresh_tokens', tok, now') = None
    /\ (req'.op = "refresh" /\ now' = now
          /\ verify_refresh_token(refresh_tokens, req'.token, now) = None)
         => resp'.status = 401 /\ resp'.access_token = NoToken
C1_RefreshTokenRoundTrip == [][C1_Step]_vars

\* C1, the case reached: a token issued by a login and then revoked is
\* presented to POST /refresh long before its expiry and answered 401.
C1_Witness ==
    /\ service = "jwt_auth"
    /\ req.op = "refresh" /\ req.token = Opaque(1)
    /\ resp.status = 401
    /\ tokenSeq >= 1 /\ RowsOf(refresh_tokens, Opaque(1)) = {}
    /\ refresh_tokens # {}
    /\ now < RefreshTtl

\* C2: for every user id and every non-negative expires_delta ttl, the
\* token made by create_access_token({sub: uid}, ttl) at t0 is accepted by
\* get_current_user with result uid at every instant strictly before
\* t0 + ttl and rejected at every instant at or after t0 + ttl.
C2_AccessTokenRoundTrip ==
    \A e \in issued :
        (e.via = "call" /\ e.delta # None /\ e.delta[1] >= 0)
          => LET who == jwt_get_current_user(e.tok, now)
             IN  IF now < e.at + e.delta[1]
                 THEN who.status = 200 /\ who.user = e.tok.sub
                 ELSE who.status = 401

\* C3: once a register with a password of six or more characters has
\* succeeded and created user u, every later login with the same email and
\* password succeeds, and the subject of the access token it issues
\* (jwt_auth), or the user_id of the session it creates (session_auth), is u.
C3_Step ==
    /\ users \subseteq users'
    /\ (req'.op = "register" /\ resp'.status = 200 /\ users' # users)
         => /\ Len(req'.password) >= MinPasswordLength
            /\ \E u \in RegisteredAs(users', req'.email, req'.password) :
                   /\ u.id = userSeq' /\ u \notin users
                   /\ users' = users \cup {u}
    /\ (req'.op = "login" /\ now' = now /\ service # "oauth_auth")
         => \A u \in RegisteredAs(users, req'.email, req'.password) :
                /\ resp'.status = 200
                /\ resp'.user = u.id
                /\ service = "jwt_auth"
                     => /\ resp'.access_token.sub = u.id
                        /\ jwt_get_current_user(resp'.access_token,
                                                now').user = u.id
                /\ service = "session_auth"
                     => /\ resp'.cookie # None
                        /\ get_session(storage, sessions', resp'.cookie[1],
                                       now').result # None
                        /\ get_session(storage, sessions', resp'.cookie[1],
                                       now').result[1].user_id = u.id
C3_RegisterThenLogin == [][C3_Step]_vars

\* C3, the case reached: the second registered user logs in after other
\* users registered and logged in, and the token carries that user's id.
C3_Witness ==
    /\ req.op = "login" /\ resp.status = 200 /\ resp.user = 2
    /\ \E u \in RegisteredAs(users, req.email, req.password) : u.id = 2
    /\ \/ (service = "jwt_auth" /\ tokenSeq = 2
                /\ resp.access_token.sub = 2)
       \/ (service = "session_auth" /\ rnd = 2)

\* C4: a login with an unknown email and a login with a registered email
\* and a wrong password get the same response, status 401 with the same
\* detail, make the same storage calls and leave users, refresh tokens and
\* sessions as they were.
C4_Step ==
    (req'.op = "login" /\ now' = now /\ service # "oauth_auth"
       /\ RegisteredAs(users, req'.email, req'.password) = {})
      => /\ resp' = Response(401, "invalid email or password")
         /\ dbcalls' = <<"SELECT users">>
         /\ UNCHANGED <<accounts, vault, rnd, issued, sessions>>
C4_LoginFailuresAlike == [][C4_Step]_vars

\* C4, the case reached: a login with a wrong password for a registered
\* email is answered 401 while another email is not registered.
C4_Witness ==
    /\ req.op = "login" /\ resp.status = 401
    /\ get_user_by_email(users, req.email) # None
    /\ \E e \in Emails : get_user_by_email(users, e) = None

\* C5: create_user is insert-or-fail per email.  Under every interleaving
\* of two concurrent registers with the same unused email and valid
\* passwords exactly one succeeds, the other gets the duplicate-email 400,
\* and users ends with exactly one record for the email; in every reachable
\* state no two user records share an email.
C5_InsertOrFail ==
    /\ \A u, v \in users : u.email = v.email => u = v
    /\ (/\ \A i \in Threads : thr[i].pc = "done"
        /\ \A i, j \in Threads : thr[i].email = thr[j].email
        /\ \A i \in Threads : Len(thr[i].password) >= MinPasswordLength)
         => /\ Cardinality({i \in Threads : thr[i].resp.status = 200}) = 1
            /\ \A i \in Threads :
                   thr[i].resp.status # 200
                     => thr[i].resp = Response(400, "email already registered")
            /\ Cardinality({u \in users : u.email = thr[1].email}) = 1
            /\ dbLock = 0

\* C5, the case reached: both requests carried the same email and a valid
\* password, and both have been answered.
C5_Witness ==
    /\ \A i \in Threads : thr[i].pc = "done"
    /\ thr[1].email = thr[2].email
    /\ \A i \in Threads : Len(thr[i].password) >= MinPasswordLength
    /\ thr[2].resp.status = 200 /\ thr[1].resp.status = 400

\* C6: a register with a password shorter than six characters is answered
\* 400 before any storage access, whether or not the email is registered,
\* and leaves users unchanged; a password of exactly six characters is
\* accepted; a register with a registered email is answered 400 and leaves
\* the existing record unchanged.
C6_Step ==
    (req'.op = "register" /\ now' = now)
      => /\ Len(req'.password) < 6
              => /\ resp'.status = 400
                 /\ dbcalls' = <<>>
                 /\ UNCHANGED accounts
         /\ (Len(req'.password) = 6
               /\ \A u \in users : u.email # req'.email)
              => /\ resp'.status = 200
                 /\ \E u \in users' : u.email = req'.email /\ u \notin users
         /\ (\E u \in users : u.email = req'.email)
              => /\ resp'.status = 400
                 /\ UNCHANGED accounts
C6_RegisterValidation == [][C6_Step]_vars

\* C6, the case reached: a register with a five-character password for an
\* email that is already registered (with a six-character password) is
\* answered 400.
C6_Witness ==
    /\ req.op = "register" /\ Len(req.password) = 5
    /\ resp.status = 400
    /\ \E u \in RegisteredAs(users, req.email, "secret") : TRUE

\* C7: an artifact of one kind never validates as the other.  (i) A
\* correctly signed, unexpired JWT whose type claim is missing or is not
\* "access" is rejected by get_current_user (jwt_auth) and by
\* verify_access_token (oauth_auth); (ii) an opaque refresh token is never
\* accepted as a bearer token; (iii) an access token is never accepted as a
\* refresh token.
C7_KindsNeverCross ==
    /\ \A tok \in BearerInputs :
         (tok.kind = "jwt" /\ jwt_decode(tok, now).ok /\ tok.type # "access")
           => /\ jwt_get_current_user(tok, now).status = 401
              /\ get_profile(users, tok, now).status = 401
              /\ verify_access_token(tok, now) = None
              /\ oauth_get_current_user(tok, now).status = 401
    /\ \A n \in 0 .. rnd :
         /\ jwt_get_current_user(Opaque(n), now).status = 401
         /\ verify_access_token(Opaque(n), now) = None
    /\ \A tok \in Known :
         tok.kind = "jwt"
           => verify_refresh_token(refresh_tokens, tok, now) = None
    /\ (req.op = "profile" /\ service # "session_auth"
          /\ req.token.kind = "jwt" /\ req.token.type # "access")
         => resp.status = 401
    /\ (req.op = "profile" /\ service # "session_auth"
          /\ req.token.kind = "opaque")
         => resp.status = 401
    /\ (req.op = "refresh" /\ req.token.kind = "jwt") => resp.status = 401

\* C7, the case reached: GET /profile of jwt_auth with a correctly signed,
\* unexpired token of type "refresh" for an existing user is answered 401.
C7_Witness ==
    /\ service = "jwt_auth"
    /\ req.op = "profile" /\ req.token.kind = "jwt"
    /\ req.token.type = "refresh" /\ req.token.key = SECRET_KEY
    /\ jwt_decode(req.token, now).ok
    /\ \E u \in users : u.id = req.token.sub
    /\ resp.status = 401

\* C8: in jwt_auth and in oauth_auth every access-token failure gets the
\* same response: a malformed token, a token with a bad signature, an
\* expired token and a token of the wrong type are all answered with status
\* 401 and the same detail text.
C8_FailuresIndistinguishable ==
    \A a, b \in BearerInputs :
        /\ (service = "jwt_auth"
              /\ jwt_get_current_user(a, now).status # 200
              /\ jwt_get_current_user(b, now).status # 200)
             => /\ jwt_get_current_user(a, now).status = 401
                /\ jwt_get_current_user(a, now) = jwt_get_current_user(b, now)
        /\ (service = "oauth_auth"
              /\ oauth_get_current_user(a, now).status # 200
              /\ oauth_get_current_user(b, now).status # 200)
             => /\ oauth_get_current_user(a, now).status = 401
                /\ oauth_get_current_user(a, now)
                     = oauth_get_current_user(b, now)

\* C9: POST /refresh with a valid refresh token returns a new access token
\* whose subject is the id of the token's owner, together with the very
\* same refresh token, and leaves refresh_tokens unchanged: no record is
\* added, removed or re-dated, so the token can be used again until it
\* expires or is revoked and its expiry is never extended by use.
C9_Step ==
    (service = "jwt_auth" /\ req'.op = "refresh" /\ now' = now)
      => /\ UNCHANGED <<vault, accounts>>
         /\ \A r \in RowsOf(refresh_tokens, req'.token) :
              now < r.expires_at
                => /\ resp'.status = 200
                   /\ resp'.user = r.user_id
                   /\ resp'.access_token.sub = r.user_id
                   /\ resp'.access_token.type = "access"
                   /\ jwt_get_current_user(resp'.access_token, now')
                        = [Response(200, "") EXCEPT !.user = r.user_id]
                   /\ resp'.refresh_token = req'.token
                   /\ verify_refresh_token(refresh_tokens', req'.token, now')
                        = Some(r.user_id)
         /\ resp'.status = 200
              => \E r \in RowsOf(refresh_tokens, req'.token) :
                     resp'.access_token.sub = r.user_id
C9_RefreshKeepsToken == [][C9_Step]_vars

\* C9, the case reached: after the access token of the login has expired, a
\* refresh with the token of a row whose id differs from its owner's id is
\* answered with a new access token for the owner.
C9_Witness ==
    /\ service = "jwt_auth"
    /\ req.op = "refresh" /\ resp.status = 200
    /\ now >= AccessTtl
    /\ \E r \in RowsOf(refresh_tokens, req.token) :
           /\ r.id # r.user_id
           /\ resp.access_token.sub = r.user_id
           /\ resp.refresh_token = SecretOf(r)

\* C10: logout is idempotent.  jwt_auth POST /logout with a token that is
\* unknown, already revoked or expired leaves refresh_tokens unchanged;
\* session_auth POST /logout with no cookie or with the id of a session
\* that no longer exists leaves the store unchanged; two logouts with the
\* same token or session id leave the state one logout leaves.
C10_LogoutIdempotent ==
    /\ \A tok \in RefreshInputs :
         LET once == revoke_refresh_token(refresh_tokens, tok, now)
         IN  /\ (\A r \in RowsOf(refresh_tokens, tok) : r.expires_at <= now)
                  => once = refresh_tokens
             /\ revoke_refresh_token(once, tok, now) = once
    /\ \A c \in CookieInputs :
         LET once == IF c = None THEN sessions
                     ELSE delete_session(storage, sessions, c[1]).store
         IN  /\ (c = None \/ ~Has(sessions, c[1])) => once = sessions
             /\ c # None
                  => delete_session(storage, once, c[1]).store = once

\* C11: a refresh token issued at t0 is rejected by verify_refresh_token,
\* and by POST /refresh with 401, at every instant at or after t0 + 7 days,
\* with no grace window, although its record is still stored; before that
\* instant, and not revoked, it is accepted.
C11_RefreshExpiry ==
    \A r \in refresh_tokens :
        IF now < r.expires_at
        THEN verify_refresh_token(refresh_tokens, SecretOf(r), now)
               = Some(r.user_id)
        ELSE verify_refresh_token(refresh_tokens, SecretOf(r), now) = None

\* The record a well-formed stored entry holds, as get_session hands it out,
\* with its instants as numbers.
Instant(text) == IF storage = "sqlite" THEN text ELSE fromisoformat(text)
WellFormed(e) == storage = "file" => file_error(e.body) = ""
RecordOf(e) ==
    LET d == IF storage = "sqlite"
             THEN [session_id |-> e.id, user_id |-> e.body.user_id,
                   created_at |-> e.body.created_at,
                   expires_at |-> e.body.expires_at,
                   last_activity |-> e.body.last_activity,
                   data |-> json_loads(e.body.data)]
             ELSE IF storage = "file" THEN json_loads(e.body)
             ELSE e.body
    IN  [session_id |-> d.session_id, user_id |-> d.user_id,
         created_at |-> Instant(d.created_at),
         expires_at |-> Instant(d.expires_at),
         last_activity |-> Instant(d.last_activity), data |-> d.data]
Records(store) == {RecordOf(e) : e \in {x \in store : WellFormed(x)}}

\* The instant a store writes for `now': SQLite's datetime('now') is in whole
\* seconds, datetime.utcnow() is not.
StoreNow(t) == IF storage = "sqlite" THEN SqlNow(t) ELSE t

\* C12: in each backend, create_session(uid) followed by get_session(id)
\* before expiry returns a record with user_id = uid and expires_at =
\* creation time + 24h; no call changes expires_at, created_at, user_id or
\* session_id of a stored record; a successful update_session(id, data)
\* leaves data = data passed and last_activity = the time of that update, and
\* no other call changes them.
C12_Step ==
    /\ (req'.op = "create_session" /\ rnd' # rnd) =>
          \A t \in SessionInstants :
              (now <= t /\ t < now + SessionTtl) =>
                  LET got == get_session(storage, sessions', resp'.result, t)
                  IN  /\ got.result # None
                      /\ got.result[1].user_id = req'.user_id
                      /\ got.result[1].session_id = resp'.result
                      /\ Instant(got.result[1].expires_at) = now + SessionTtl
    /\ \A r \in Records(sessions), q \in Records(sessions') :
          r.session_id = q.session_id =>
              /\ q.expires_at = r.expires_at
              /\ q.created_at = r.created_at
              /\ q.user_id = r.user_id
              /\ IF /\ req'.op = "update_session" /\ now' = now
                    /\ req'.session_id = r.session_id
                    /\ resp'.error = "" /\ resp'.result
                 THEN q.data = req'.data /\ q.last_activity = StoreNow(now)
                 ELSE q.data = r.data /\ q.last_activity = r.last_activity

C12_SessionRecordFrame == [][C12_Step]_vars

C12_Witness ==
    /\ req.op = "update_session" /\ resp.error = "" /\ resp.result
    /\ req.data # EmptyData
    /\ now > MaxStart
    /\ \E r \in Records(sessions) :
          r.session_id = req.session_id /\ r.last_activity = StoreNow(now)

\* C13: in all three backends get_session(id) returns no record at every
\* instant now with expires_at <= now, the instant now = expires_at included,
\* and returns the record at every instant now < expires_at; it accepts a
\* record exactly when cleanup_expired would not delete it.
C13_GetRejectsExpired ==
    \A e \in sessions :
        WellFormed(e) =>
            LET got == get_session(storage, sessions, e.id, now)
            IN  /\ RecordOf(e).expires_at <= now => got.result = None
                /\ now < RecordOf(e).expires_at => got.result # None
                /\ got.result # None <=>
                       e \in cleanup_expired(storage, sessions, now).store

\* C14: in all three backends cleanup_expired removes exactly the records
\* whose expires_at <= now and none with a future expiry, returns the number
\* of records it removed, and a second call at the same instant returns 0
\* and changes nothing.
C14_CleanupExact ==
    (\A e \in sessions : WellFormed(e)) =>
        LET out == cleanup_expired(storage, sessions, now)
        IN  /\ out.store = {e \in sessions : RecordOf(e).expires_at > now}
            /\ out.result = Cardinality(sessions \ out.store)
            /\ cleanup_expired(storage, out.store, now).result = 0
            /\ cleanup_expired(storage, out.store, now).store = out.store

\* C15: in all three backends delete_session(id) returns True exactly when
\* an entry with that id was stored, removes that entry and no other, and
\* from then on get_session(id) returns None and a request carrying that
\* session id is rejected with 401.
C15_Step ==
    /\ (req'.op = "delete_session" /\ now' = now) =>
          /\ resp'.error = ""
          /\ resp'.result <=> Has(sessions, req'.session_id)
          /\ sessions' = {e \in sessions : e.id # req'.session_id}
    /\ \A id \in SessionIds :
          ~Has(sessions, id) =>
              /\ ~Has(sessions', id)
              /\ get_session(storage, sessions', id, now').result = None
              /\ session_get_current_user(storage, sessions', Some(id),
                                          now').resp.status = 401

C15_DeleteSession == [][C15_Step]_vars

C15_Witness ==
    /\ req.op = "delete_session" /\ resp.result
    /\ ~Has(sessions, req.session_id)
    /\ sessions # {}

\* C16: in all three backends update_session(id, data) on an id that is
\* absent or whose record is expired returns False and leaves the store,
\* the expired record included, as it was.  Stated for the records past
\* their expiry (expires_at < now), which every backend takes for expired.
C16_FailedUpdateIsNoOp ==
    \A id \in SessionIds, data \in SessionData :
        LET out == update_session(storage, sessions, id, data, now)
        IN  (\/ ~Has(sessions, id)
             \/ /\ WellFormed(Entry(sessions, id))
                /\ RecordOf(Entry(sessions, id)).expires_at < now) =>
                /\ ~out.result
                /\ out.store = sessions

\* C17: FileSessionStorage.get_session on a session file that is corrupt or
\* unparseable returns None and removes the file, so that a later get,
\* update or delete of that id reports not-found; it never removes a file
\* that holds a well-formed unexpired record.
C17_CorruptFileRemoved ==
    storage = "file" =>
        \A e \in sessions :
            LET got == file_get_session(sessions, e.id, now)
            IN  /\ ~WellFormed(e) =>
                      /\ got.error = "" /\ got.result = None
                      /\ ~Has(got.store, e.id)
                      /\ file_get_session(got.store, e.id, now).result = None
                      /\ \A data \in SessionData :
                             ~file_update_session(got.store, e.id, data,
                                                  now).result
                      /\ ~file_delete_session(got.store, e.id).result
                /\ (WellFormed(e) /\ now < RecordOf(e).expires_at) =>
                      got.store = sessions

\* C18: once revoke_refresh_token(t) has committed the deletion of t's row,
\* no verify_refresh_token(t) returns a user id and no POST /refresh with t
\* issues an access token, however the requests interleave: the last answer
\* given is never a successful refresh of a token whose row is gone.
C18_NoRefreshAfterRevoke ==
    (req.op = "refresh" /\ resp.status = 200) =>
        RowsOf(refresh_tokens, req.token) # {}

\* C19: in each backend, once delete_session(id) has returned no later
\* get_session(id) returns a record, however the delete interleaves with
\* update_session(id, ...) calls and authenticated requests on the same id;
\* a concurrent update never re-creates a deleted session.  Session ids are
\* never given out twice, so while a thread rests after its delete_session
\* of an id, a get_session of that id finds nothing.
C19_DeletedStaysDeleted ==
    \A i \in Threads :
        (thr[i].pc = "done" /\ thr[i].op = "delete_session") =>
            get_session(storage, sessions, thr[i].id, now).result = None

\* C20: with the file and memory backends, cleanup_expired running
\* concurrently with the other operations always completes without raising,
\* and never removes a session whose expiry is in the future, in particular
\* not the file of a session that create_session has opened and not yet
\* written.
C20_CleanupSafe ==
    storage \in {"file", "memory"} =>
        \A i \in Threads :
            /\ (thr[i].pc = "done" /\ thr[i].op = "cleanup_expired") =>
                   thr[i].error = ""
            /\ thr[i].pc = "c_dump" => Has(sessions, thr[i].id)

\* C21: in each backend, when two update_session calls on the same unexpired
\* session run concurrently and both return True, the stored record is
\* well-formed and retrievable by get_session, its data is the data of one of
\* the two calls, and its user_id and expires_at are unchanged.
C21_ConcurrentUpdates ==
    \A i, j \in Threads :
        (/\ i # j
         /\ thr[i].pc = "done" /\ thr[i].op = "update_session"
         /\ thr[j].pc = "done" /\ thr[j].op = "update_session"
         /\ thr[i].id = thr[j].id
         /\ thr[i].error = "" /\ thr[i].result
         /\ thr[j].error = "" /\ thr[j].result) =>
            /\ Has(sessions, thr[i].id)
            /\ WellFormed(Entry(sessions, thr[i].id))
            /\ LET r == RecordOf(Entry(sessions, thr[i].id))
               IN  /\ r.data \in {thr[i].data, thr[j].data}
                   /\ r.user_id = 1
                   /\ StoreNow(r.expires_at - SessionTtl) = r.created_at
                   /\ now < r.expires_at =>
                          get_session(storage, sessions, thr[i].id,
                                      now).result # None

\* C22: every successful POST /login of jwt_auth adds exactly one record to
\* refresh_tokens and removes none, so the tokens of earlier logins, of the
\* same user too, stay valid; POST /logout with token t removes the record
\* of t and no other, and every other token verifies afterwards as it did
\* before, with its own owner's id.
C22_Step ==
    service = "jwt_auth" =>
        /\ (req'.op = "login" /\ rnd' # rnd) =>
              /\ refresh_tokens \subseteq refresh_tokens'
              /\ Cardinality(refresh_tokens') = Cardinality(refresh_tokens) + 1
              /\ \A r \in refresh_tokens :
                    verify_refresh_token(refresh_tokens', SecretOf(r), now')
                      = verify_refresh_token(refresh_tokens, SecretOf(r), now)
        /\ (req'.op = "logout" /\ now' = now) =>
              /\ refresh_tokens' \subseteq refresh_tokens
              /\ refresh_tokens \ refresh_tokens'
                    \subseteq RowsOf(refresh_tokens, req'.token)
              /\ verify_refresh_token(refresh_tokens', req'.token, now) = None
              /\ \A r \in refresh_tokens :
                    SecretOf(r) # req'.token =>
                        /\ r \in refresh_tokens'
                        /\ verify_refresh_token(refresh_tokens', SecretOf(r),
                                                now)
                             = verify_refresh_token(refresh_tokens,
                                                    SecretOf(r), now)

C22_OneRecordPerLogin == [][C22_Step]_vars

C22_Witness ==
    /\ service = "jwt_auth"
    /\ req.op = "logout" /\ resp.status = 200
    /\ tokenSeq = 2 /\ Cardinality(refresh_tokens) = 1
    /\ \E r \in refresh_tokens :
          /\ SecretOf(r) # req.token
          /\ verify_refresh_token(refresh_tokens, SecretOf(r), now)
               = Some(r.user_id)

\* C23: every refresh-token record of jwt_auth is destroyed on revoke or
\* sweep: for a record whose expires_at <= now some operation of the service
\* (the service has no sweep; a POST /logout with some token, the record's
\* own included) leaves refresh_tokens without the record.
C23_ExpiredRecordsRemovable ==
    \A r \in refresh_tokens :
        r.expires_at <= now =>
            \E tok \in RefreshInputs :
                r \notin revoke_refresh_token(refresh_tokens, tok, now)

\* The tokens made from the issued ones by changing the type claim, the
\* signing key, or both.
Reworked ==
    {[tok EXCEPT !.type = ty, !.key = k] :
         tok \in {x \in Known : x.kind = "jwt"},
         ty \in {"access", "refresh", NoType},
         k \in {SECRET_KEY, "attacker-key"}}

\* C24: access-token checks run in the order signature, expiry, type, and a
\* token failing several is classified by the first: a tampered token is
\* rejected on its signature whatever its exp and type, and a correctly
\* signed token that is expired and of the wrong type is rejected as expired
\* (the PyJWT error path), not as a wrong type.
C24_CheckOrder ==
    \A token \in Reworked :
        LET payload == jwt_decode(token, now)
            expired == timedelta_seconds(token.exp) <= now
        IN  /\ token.key # SECRET_KEY =>
                  /\ payload.err = "InvalidSignatureError"
                  /\ jwt_get_current_user(token, now)
                       = Response(401, "Invalid token")
                  /\ verify_access_token(token, now) = None
            /\ (token.key = SECRET_KEY /\ expired) =>
                  /\ payload.err = "ExpiredSignatureError"
                  /\ jwt_get_current_user(token, now)
                       = Response(401, "Invalid token")
                  /\ verify_access_token(token, now) = None
            /\ (token.key = SECRET_KEY /\ ~expired /\ token.type # "access") =>
                  /\ payload.ok
                  /\ jwt_get_current_user(token, now)
                       = Response(401, "Invalid token type")
                  /\ verify_access_token(token, now) = None

C24_Witness ==
    \E token \in Reworked :
        /\ token.type = "refresh"
        /\ timedelta_seconds(token.exp) <= now
        /\ \E other \in Reworked :
              /\ other.key # SECRET_KEY /\ other.type = "refresh"
              /\ timedelta_seconds(other.exp) > now

\* C25: every token made by create_access_token carries type "access" and
\* the caller's sub; its exp is the instant of the call plus expires_delta
\* whenever an expires_delta was supplied, whatever its value, and the
\* instant of the call plus 30 minutes only when none was supplied.
C25_ExpiryFromDelta ==
    \A e \in issued :
        e.via = "call"
          => /\ e.tok.type = "access"
             /\ e.tok.key = SECRET_KEY
             /\ e.tok.exp = EpochSeconds(e.at + (IF e.delta = None
                                                  THEN AccessTtl
                                                  ELSE e.delta[1]))

\* C26: whatever the interleaving of revoke_refresh_token calls with each
\* other and with logins that issue new tokens, a step removes at most one
\* record and only at the commit of a revoke of the very token the record
\* was made for; after that commit no record of the token is left; and an
\* id is never given to a second record.
C26_Step ==
    LET gone   == refresh_tokens \ refresh_tokens'
        issued_rows == refresh_tokens' \ refresh_tokens
    IN  /\ Cardinality(gone) <= 1
        /\ \A r \in gone :
               \E i \in Threads :
                   /\ thr[i].pc = "commit" /\ thr'[i] = Idle
                   /\ verify_password(thr[i].token, r.token_hash)
                   /\ r.id \in thr[i].deleted
        /\ \A i \in Threads :
               (thr[i].pc = "commit" /\ thr'[i] = Idle)
                 => Matching(refresh_tokens', thr[i].token, now) = {}
        /\ \A r \in issued_rows : r.id > tokenSeq
        /\ \A r \in refresh_tokens : r.id <= tokenSeq

C26_OnlyThatRecord == [][C26_Step]_vars

\* A revoke is about to commit the delete of an id that the other revoke of
\* the same token has already removed, while a token issued after its
\* SELECT is stored.
C26_Witness ==
    \E i \in Threads :
        /\ thr[i].pc = "commit"
        /\ thr[i].deleted # {}
        /\ \A r \in refresh_tokens : r.id \notin thr[i].deleted
        /\ \E r \in refresh_tokens : r \notin thr[i].tokens

\* C27: a request that carries the id of a stored session answers with the
\* session's user_id when now < expires_at, writes last_activity and leaves
\* data, user_id, created_at and expires_at as they were; at every instant
\* with expires_at <= now, that is at or after creation + 24 h, it is
\* answered 401, however many requests were served before.
C27_Fresh(e) ==
    /\ resp'.status = 200
    /\ resp'.user = RecordOf(e).user_id
    /\ Has(sessions', e.id)
    /\ LET after == RecordOf(Entry(sessions', e.id))
       IN  /\ after.data = RecordOf(e).data
           /\ after.user_id = RecordOf(e).user_id
           /\ after.created_at = RecordOf(e).created_at
           /\ after.expires_at = RecordOf(e).expires_at
           /\ after.last_activity = StoreNow(now)

C27_Step ==
    (service = "session_auth" /\ req'.op = "profile" /\ now' = now
     /\ req'.cookie # None)
      => \A e \in sessions :
             (e.id = req'.cookie[1] /\ WellFormed(e))
               => /\ RecordOf(e).expires_at = RecordOf(e).created_at + SessionTtl
                     \/ storage = "sqlite"
                  /\ IF now < RecordOf(e).expires_at
                     THEN C27_Fresh(e)
                     ELSE resp'.status = 401

C27_FixedLifetime == [][C27_Step]_vars

\* C28: in jwt_auth and oauth_auth a request that presents an access token
\* handed out earlier is answered 200 with the token's subject at every
\* instant before the token's exp and 401 from exp on, whatever logouts,
\* refreshes and logins were served in between; a logout changes no user
\* and no token that was handed out.
C28_Step ==
    /\ (service \in {"jwt_auth", "oauth_auth"} /\ req'.op = "profile"
        /\ now' = now /\ req'.token \in {k \in Known : k.kind = "jwt"})
          => IF now < timedelta_seconds(req'.token.exp)
             THEN resp'.status = 200 /\ resp'.user = req'.token.sub
             ELSE resp'.status = 401
    /\ (req'.op = "logout" /\ now' = now)
          => /\ issued' = issued
             /\ users' = users
             /\ oauth_users' = oauth_users

C28_AccessTokenSurvivesLogout == [][C28_Step]_vars

\* jwt_auth has answered a request with an access token 200 although every
\* refresh token that was issued has been revoked.
C28_Witness ==
    /\ service = "jwt_auth"
    /\ tokenSeq >= 1 /\ refresh_tokens = {}
    /\ req.op = "profile" /\ resp.status = 200
    /\ req.token \in {e.tok : e \in issued}

\* C29: given the same calls at the same instants, the SQLite, file and
\* memory stores answer alike (get_session a record or none, update_session
\* and delete_session the same boolean, cleanup_expired the same count) and
\* hand out records for the same ids afterwards.
C29_SameContract ==
    \A k1, k2 \in StorageTypes :
        /\ Live(k1, backends[k1], now) = Live(k2, backends[k2], now)
        /\ req.op = "get_session" => ((resp[k1] = None) <=> (resp[k2] = None))
        /\ req.op \in {"update_session", "delete_session", "cleanup_expired"}
              => resp[k1] = resp[k2]

\* C30: file backend.  While a get_session and a create_session or
\* update_session of the same id, unexpired, are both under way and the file
\* is there, no step removes it, and a get_session that returns does so without
\* an exception, with None or with a well-formed record.
C30_Step ==
    \A i, j \in Threads :
        (/\ storage = "file" /\ i # j /\ now' = now /\ now < SessionTtl
         /\ thr[i].pc \notin {"idle", "done"} /\ thr[i].op = "get_session"
         /\ thr[j].pc \notin {"idle", "done"}
         /\ thr[j].op \in {"create_session", "update_session"}
         /\ thr[i].id = thr[j].id /\ Has(sessions, thr[i].id))
          => /\ Has(sessions', thr[i].id)
             /\ thr'[i].pc = "done"
                   => /\ thr'[i].error = ""
                      /\ \/ thr'[i].result = None
                         \/ thr'[i].result[1].session_id = thr[i].id

C30_GetBesideWrite == [][C30_Step]_vars

\* C31: a storage operation that has completed or failed holds no open
\* connection.
C31_ConnectionsReleased ==
    \A i \in Threads : thr[i].pc = "done" => ~thr[i].conn

\* C32: in jwt_auth no step removes or changes a users row; every
\* refresh_tokens row belongs to a stored user; every access token handed
\* out by /login or /refresh has a stored user's id as its subject; and a
\* GET /profile with such a token, not yet expired, is never answered 404.
C32_Step ==
    service = "jwt_auth" =>
        /\ users \subseteq users'
        /\ \A r \in refresh_tokens' : \E u \in users' : u.id = r.user_id
        /\ \A e \in issued' : \E u \in users' : u.id = e.tok.sub
        /\ (req'.op \in {"login", "refresh"} /\ now' = now
            /\ resp'.status = 200)
              => \E u \in users' : u.id = resp'.access_token.sub
        /\ (req'.op = "profile" /\ now' = now
            /\ req'.token \in {k \in Known : k.kind = "jwt"}
            /\ now < timedelta_seconds(req'.token.exp))
              => resp'.status = 200 /\ resp'.user = req'.token.sub

C32_SubjectsExist == [][C32_Step]_vars

\* Two users are registered, refresh tokens are stored, and a GET /profile
\* with a token of the second user has been answered 200.
C32_Witness ==
    /\ service = "jwt_auth"
    /\ Cardinality(users) = 2 /\ refresh_tokens # {}
    /\ req.op = "profile" /\ resp.status = 200 /\ resp.user = 2

\* C33: a request answered 401 changes no state: a login creates no
\* refresh-token record and no session, a refresh leaves refresh_tokens as
\* it was, and a GET /profile leaves users, refresh_tokens and the stored
\* sessions, with their last_activity and data, as they were.
C33_Step ==
    (now' = now /\ resp'.status = 401)
      => /\ req'.op = "login"
              => /\ refresh_tokens' = refresh_tokens
                 /\ sessions' = sessions
                 /\ rnd' = rnd
         /\ req'.op = "refresh" => refresh_tokens' = refresh_tokens
         /\ req'.op = "profile"
              => /\ users' = users
                 /\ refresh_tokens' = refresh_tokens
                 /\ sessions' = sessions

C33_FailedRequestsChangeNothing == [][C33_Step]_vars

\* C34: at most one users record per yandex_id, its email and name those of
\* the call that created it, and every call of get_or_create_user for that
\* yandex_id, whatever it interleaves with, returns without an exception
\* the id of that record.
C34_OneUserPerProvider ==
    /\ \A u, v \in oauth_users : u.yandex_id = v.yandex_id => u = v
    /\ \A i \in Threads :
           (thr[i].pc = "done" /\ thr[i].info \in YandexInfos)
             => /\ thr[i].error = ""
                /\ \E u \in oauth_users :
                       /\ u.yandex_id = thr[i].info.id
                       /\ u.id = thr[i].result
====
